---- MODULE Spec2Model ----
(***************************************************************************)
(* ScrapeWizard: the Project Workflow Engine (core/orchestrator.py), the   *)
(* Repair Loop (healing/repair_loop.py), the Behavioral Scanner            *)
(* (recon/scanner.py), the Generated Scraper Runtime                       *)
(* (scrapewizard_runtime/base.py), the Script Tester (runtime/tester.py),  *)
(* the browser sessions (recon/browser.py), the LLM client (llm/client.py) *)
(* and the agents' code extraction (llm/codegen.py, llm/repair.py).        *)
(*                                                                         *)
(* Spec         the Orchestrator: construction, the run loop with its ten  *)
(*              state handlers, the top-level guard and the Wide Event.    *)
(* LoopSpec     RepairLoop.run on its own, for any attempt budget.         *)
(* ScanSpec     Scanner.scan on its own, for any signals and failing       *)
(*              stages.                                                    *)
(* ScraperSpec  BaseScraper.run on its own, for any pagination config and  *)
(*              any pages; ScraperFairSpec is the same with the run        *)
(*              scheduled until it ends.                                   *)
(* TesterSpec   ScriptTester.run_test, called again and again on one       *)
(*              project directory.                                         *)
(* BrowserSpec  the browser session of a handler: start, work, close, and  *)
(*              the retries around them.                                   *)
(* ClientSpec   LLMClient.call and LLMClient.parse_json.                   *)
(* AgentSpec    what CodeGenerator and RepairAgent make of a reply and     *)
(*              write to generated_scraper.py.                             *)
(*                                                                         *)
(* The project directory is modelled by `disk` (session.json),             *)
(* `wide_event` (wide_event.json) and `files` (scan_profile.json,          *)
(* run_config.json, interaction.json); writes to it succeed.  What else a  *)
(* handler wrote is noted in `trans`.                                      *)
(***************************************************************************)
EXTENDS Integers, Sequences, FiniteSets, TLC

VARIABLES
    session,     \* Orchestrator.session, the in-memory session dict
    disk,        \* session.json in the project directory
    wide_event,  \* wide_event.json: <<>> while absent, else <<document>>
    opts,        \* the constructor's ci_mode, wizard_mode, interactive_mode
    pc,          \* where the process is: idle, loop, finally, returned, raised
    call,        \* locals of the current call of run()
    loop,        \* locals of the current call of RepairLoop.run
    trans,       \* the last state change made and the input that chose it
    files,       \* scan_profile, run_config, interaction: <<>> while absent
    scan,        \* Scanner: the page it is pointed at and what scan() gave
    scraper,     \* BaseScraper: the instance a generated script runs
    tester,      \* ScriptTester.run_test: the project's output and the call
    browser,     \* the engine's browser sessions and the handler owning them
    client,      \* LLMClient: the call in progress and what parse_json read
    agent        \* CodeGenerator / RepairAgent: the reply and the code kept

vars ==
    <<session, disk, wide_event, opts, pc, call, loop, trans, files, scan,
      scraper, tester, browser, client, agent>>

\* the units that are modelled on their own, apart from Scanner and
\* BaseScraper
units == <<tester, browser, client, agent>>

(***************************************************************************)
(* Bounds and program constants                                            *)
(***************************************************************************)
\* how many times run() is called on the one project (scrape, then resume)
MaxRuns == 2
\* the largest attempt budget LoopSpec tries
MaxBudget == 3
\* RepairLoop.max_attempts
max_attempts == 2

(***************************************************************************)
(* Values                                                                  *)
(***************************************************************************)
WorkflowStates ==
    {"INIT", "GUIDED_ACCESS", "RECON", "INTERACTIVE_SOLVE", "LLM_ANALYSIS",
     "USER_CONFIG", "CODEGEN", "TEST", "REPAIR", "APPROVED", "DONE", "FAILED"}

\* class State: the workflow states and the two legacy members
State == WorkflowStates \cup {"LOGIN", "FINAL_RUN"}

\* the states the if/elif chain of _run_internal dispatches to a handler
Handled == State \ {"DONE", "FAILED", "FINAL_RUN"}

None == "none"
Urls == {"u0", "u1"}
\* the columns of the preview dataset and what the operator may tick
ColumnChoices == {{}, {"price"}, {"price", "title"}}

\* an optional list: <<>> is an absent key / None, <<C>> the list C
Absent == <<>>
\* Python truthiness of an optional list
truthy(opt) == opt # Absent /\ opt[1] # {}

Options == [ci_mode : BOOLEAN, wizard_mode : BOOLEAN, interactive_mode : BOOLEAN]

\* the session.json that create_project writes
create_project(url) ==
    [state |-> "INIT", url |-> url, login_performed |-> FALSE,
     fix_columns |-> Absent, force_guided |-> FALSE]

\* session.json as found by the constructor: a fresh project, or one that an
\* earlier version of the tool left in a legacy state or took as far as TEST
\* (this version's CODEGEN handler raises before it can reach TEST)
StoredStates == {"INIT", "LOGIN", "FINAL_RUN", "TEST"}

\* site: the page the probe met, profile: what INIT took as the probe's
\* profile, mode: the access_mode put in interaction.json, wrote: the
\* artifacts the handler wrote, understanding: the Understanding agent's
\* reply, cause: why the handler chose FAILED, prompted: the handler waited
\* for the operator (kept by USER_CONFIG and INTERACTIVE_SOLVE, the handlers
\* whose code holds a prompt outside every `if self.ci_mode` early return)
\* attempts: how often the final run's do_final called run_test
NoNote ==
    [from |-> "-", to |-> "-", by |-> None, action |-> "-", cols |-> Absent,
     fixed |-> FALSE, flagged |-> FALSE, hints |-> Absent, site |-> Absent,
     profile |-> Absent, probe_failed |-> FALSE, mode |-> None, wrote |-> {},
     understanding |-> Absent, cause |-> None, prompted |-> FALSE,
     attempts |-> 0]

LoopIdle ==
    [pc |-> "idle", attempts |-> 0, max |-> 0, hints |-> Absent,
     log |-> <<>>, result |-> FALSE, flagged |-> FALSE]

\* a project directory that holds session.json only
NoFiles ==
    [scan_profile |-> Absent, run_config |-> Absent, interaction |-> Absent]

\* no Scanner at work
ScanIdle == [pc |-> "idle"]

\* no script tester, browser, LLM client or agent at work
TesterIdle == [pc |-> "idle", runs |-> 0, output |-> Absent, last |-> Absent]
BrowserIdle ==
    [pc |-> "idle", handler |-> None, attempt |-> 0, resources |-> {},
     failed |-> FALSE, abandoned |-> 0, handled |-> 0]
ClientIdle ==
    [pc |-> "idle", provider |-> None, json_mode |-> FALSE, mode |-> FALSE,
     requests |-> <<>>, result |-> Absent, parsed |-> Absent]
AgentIdle ==
    [pc |-> "idle", who |-> None, response |-> <<>>, path |-> None,
     extracted |-> <<>>, code |-> <<>>, written |-> Absent]

UnitsAtRest ==
    /\ tester = TesterIdle
    /\ browser = BrowserIdle
    /\ client = ClientIdle
    /\ agent = AgentIdle

\* BaseScraper.__init__: no results, no page counter; with the default
\* pagination_config and pagination_meta, and nothing run yet
ScraperIdle ==
    [pc |-> "idle", config |-> [mode |-> "first_page", max_pages |-> 1],
     next_selector |-> FALSE, seed |-> "distinct", results |-> <<>>,
     page_count |-> Absent, collected |-> 0, removed |-> 0,
     button |-> None, advanced |-> FALSE, data |-> Absent, shown |-> None]

NewCall(n, d) ==
    [runs |-> n, start |-> d, handled |-> FALSE, writes |-> 0,
     error_msg |-> None, raising |-> None]

(***************************************************************************)
(* Persistence and the state field                                         *)
(***************************************************************************)
\* faulty variant: only the state is written, the flags are left as they were
save_state_state_only(s) == [disk EXCEPT !.state = s.state]

\* ProjectManager.save_state: the whole session dict replaces session.json
save_state(s) == s

\* ProjectManager.load_project
load_project(d) == d

\* Orchestrator._transition_to
transition_to(s, new_state) == [s EXCEPT !.state = new_state]

Init ==
    /\ disk \in {transition_to(create_project("u0"), st) : st \in StoredStates}
    /\ session = disk
    /\ wide_event = <<>>
    /\ opts = [ci_mode |-> FALSE, wizard_mode |-> TRUE,
               interactive_mode |-> FALSE]
    /\ pc = "idle"
    /\ call = NewCall(0, disk)
    /\ loop = LoopIdle
    /\ trans = NoNote
    /\ files = NoFiles
    /\ scan = ScanIdle
    /\ scraper = ScraperIdle
    /\ UnitsAtRest

\* the resume command constructs the Orchestrator with its defaults
ResumeOptions ==
    [ci_mode |-> FALSE, wizard_mode |-> TRUE, interactive_mode |-> FALSE]

\* Orchestrator.__init__ followed by run(): the session is loaded from disk;
\* the first run has any options, a later one is the resume command
run_start ==
    /\ pc \in {"idle", "returned", "raised"}
    /\ call.runs < MaxRuns
    /\ \E o \in Options :
           opts' = IF call.runs = 0 THEN o ELSE ResumeOptions
    /\ session' = load_project(disk)
    /\ call' = NewCall(call.runs + 1, disk)
    /\ pc' = "loop"
    /\ loop' = LoopIdle
    /\ trans' = NoNote
    /\ UNCHANGED <<disk, wide_event, files, scan, scraper, units>>

(***************************************************************************)
(* The run loop: dispatch, save after the handler, the top-level guard     *)
(***************************************************************************)
\* the while condition of _run_internal
loop_continues(s) == s.state # "DONE" /\ s.state # "FAILED"

\* at the top of the while loop, about to dispatch the handler of state st
AtTop(st) ==
    /\ pc = "loop"
    /\ loop.pc = "idle"
    /\ loop_continues(session)
    /\ session.state = st

\* a handler returned normally leaving session s and the artifacts f:
\* save_state, next iteration
Returns(s, note, f) ==
    /\ session' = s
    /\ disk' = save_state(s)
    /\ trans' = [note EXCEPT !.from = session.state, !.to = s.state,
                             !.by = "handler"]
    /\ call' = [call EXCEPT !.handled = TRUE]
    /\ loop' = LoopIdle
    /\ files' = f
    /\ UNCHANGED <<pc, opts, wide_event, scan, scraper, units>>

\* the same for a handler that wrote no scan profile
Return(s, note) == Returns(s, note, files)

\* faulty variant: the guard sets FAILED but does not save
on_exception_without_save(s) ==
    [session |-> transition_to(s, "FAILED"), disk |-> disk]

\* except Exception: FAILED, save_state, re-raise
on_exception(s) ==
    [session |-> transition_to(s, "FAILED"),
     disk |-> save_state(transition_to(s, "FAILED"))]

\* except KeyboardInterrupt: FAILED, break
on_interrupt(s) ==
    [session |-> transition_to(s, "FAILED"), disk |-> disk]

\* the else branch of the dispatch: FAILED, break
on_unhandled(s) ==
    [session |-> transition_to(s, "FAILED"), disk |-> disk]

\* str(e), kept by run() as error_msg
error_text(text) == text

\* leaving the while loop through one of the three branches above, the
\* handler having left the artifacts f
Leaves(r, by, text, f) ==
    /\ session' = r.session
    /\ disk' = r.disk
    /\ trans' = [NoNote EXCEPT !.from = session.state, !.to = r.session.state,
                               !.by = by]
    /\ call' = [call EXCEPT !.handled = (@ \/ by # "unhandled"),
                            !.error_msg = error_text(text),
                            !.raising = text]
    /\ pc' = "finally"
    /\ loop' = LoopIdle
    /\ files' = f
    /\ UNCHANGED <<opts, wide_event, scan, scraper, units>>

Leave(r, by, text) == Leaves(r, by, text, files)

\* a handler raised an exception with the session left as s
Raised(s, text) == Leave(on_exception(s), "guard", text)

\* what a handler that raises or is interrupted may already have assigned:
\* do_login sets url and login_performed before its finally clause runs
Partial(s) ==
    IF s.state \in {"GUIDED_ACCESS", "LOGIN"} /\ ~opts.ci_mode
    THEN {s} \cup {[s EXCEPT !.url = u, !.login_performed = TRUE] : u \in Urls}
    ELSE {s}

\* any handler may fail (browser, file system, prompt at end of input)
handler_exception ==
    /\ pc = "loop"
    /\ loop_continues(session)
    /\ session.state \in Handled
    /\ \E s \in Partial(session) : Raised(s, "RuntimeError")

\* the operator presses Ctrl-C while a handler runs
handler_interrupt ==
    /\ pc = "loop"
    /\ loop_continues(session)
    /\ session.state \in Handled
    /\ \E s \in Partial(session) : Leave(on_interrupt(s), "interrupt", None)

\* a state value with no handler
unhandled_state ==
    /\ pc = "loop"
    /\ loop_continues(session)
    /\ session.state \notin Handled
    /\ Leave(on_unhandled(session), "unhandled", None)

\* the while condition is false: _run_internal returns
run_internal_returns ==
    /\ pc = "loop"
    /\ loop.pc = "idle"
    /\ ~loop_continues(session)
    /\ pc' = "finally"
    /\ UNCHANGED <<session, disk, wide_event, opts, call, loop, trans, files,
                   scan, scraper, units>>

\* run(): success is read after _run_internal returned, and stays False
\* when it raised
run_success(s, raising) == raising = None /\ s.state = "DONE"

\* the document _emit_wide_event builds
wide_event_doc(success, error, s) ==
    [success |-> success, error |-> error, final_state |-> s.state]

\* the finally clause of run(): one wide_event.json, then return or re-raise
emit_wide_event ==
    /\ pc = "finally"
    /\ wide_event' = <<wide_event_doc(run_success(session, call.raising),
                                      call.error_msg, session)>>
    /\ call' = [call EXCEPT !.writes = @ + 1]
    /\ pc' = IF call.raising # None THEN "raised" ELSE "returned"
    /\ UNCHANGED <<session, disk, opts, loop, trans, files, scan, scraper, units>>

\* the scrape command (cli/commands/scrape.py): orchestrator.run() raising
\* an Exception is answered with typer.Exit(code=1); when run() returns,
\* whatever the session state, the command falls off its end
exit_code(outcome) == IF outcome = "raised" THEN 1 ELSE 0

(***************************************************************************)
(* Scanner.scan (recon/scanner.py)                                         *)
(***************************************************************************)
\* the labels of the stages scan() runs through _safe_call, in order
Stages ==
    {"pre_render", "stability", "post_render", "mutations", "scroll",
     "framework_detect", "shadow_dom_detect", "anti_bot_detect", "bot_defense",
     "signin_detect", "iframes", "realtime", "nav_ratio", "accessibility",
     "repeating_units", "browser_mode"}

\* what _detect_signin_requirement looks for on the page
SigninSignals ==
    {"login_buttons", "auth_blocks", "auth_text", "blurred", "overlays",
     "known_platform"}

\* _detect_signin_requirement: the likelihood score and what follows from it
detect_signin_requirement(signals) ==
    LET likelihood ==
              (IF "login_buttons" \in signals THEN 20 ELSE 0)
            + (IF "auth_blocks" \in signals THEN 30 ELSE 0)
            + (IF "auth_text" \in signals THEN 40 ELSE 0)
            + (IF "blurred" \in signals THEN 25 ELSE 0)
            + (IF "overlays" \in signals THEN 35 ELSE 0)
            + (IF "known_platform" \in signals THEN 30 ELSE 0)
    IN [signin_likelihood_score |-> likelihood,
        signin_detected |-> likelihood >= 40,
        signin_reasons |-> signals]

\* what the function behind a stage returns when it does not raise; the
\* value of a stage that feeds no score is the token "value"
stage_value(page, label) ==
    CASE label = "mutations" -> [high |-> page.mutation_high]
      [] label = "scroll" ->
             [content_increases_on_scroll |-> page.scroll_grows]
      [] label = "framework_detect" -> page.framework
      [] label = "anti_bot_detect" ->
             [captcha |-> page.captcha, cloudflare |-> page.cloudflare]
      [] label = "bot_defense" ->
             [found_cookies |-> page.found_cookies,
              found_scripts |-> page.found_scripts,
              honeypots |-> page.honeypots]
      [] label = "signin_detect" -> detect_signin_requirement(page.signin)
      [] OTHER -> "value"

\* the function behind a stage raises: the page makes it fail, or it is
\* _decide_browser_mode reading tech_stack["anti_bot"] that is None
stage_raises(page, label) ==
    \/ label \in page.failing
    \/ label = "browser_mode" /\ "anti_bot_detect" \in page.failing

\* _safe_call: None for a stage that raised, else its value
safe_call(page, label) ==
    IF stage_raises(page, label) THEN Absent ELSE <<stage_value(page, label)>>

\* _log_error through _safe_call: the labels with an error record
logged_errors(page) == {label \in Stages : stage_raises(page, label)}

\* "x.get(key) or {}" and its kin: the field of an optional record, with
\* the default for None
field_or(opt, default) == IF opt = Absent THEN default ELSE opt[1]

\* _calculate_complexity_score
calculate_complexity_score(behavioral, is_spa) ==
    LET score ==
              (IF behavioral.captcha_detected THEN 50 ELSE 0)
            + (IF behavioral.cloudflare_detected THEN 40 ELSE 0)
            + (IF is_spa THEN 20 ELSE 0)
            + (IF behavioral.mutation_high THEN 15 ELSE 0)
            + (IF behavioral.content_increases_on_scroll THEN 15 ELSE 0)
        reasons ==
              (IF behavioral.captcha_detected THEN {"CAPTCHA detected"} ELSE {})
              \cup (IF behavioral.cloudflare_detected
                    THEN {"Cloudflare detected"} ELSE {})
              \cup (IF is_spa THEN {"SPA Framework detected"} ELSE {})
              \cup (IF behavioral.mutation_high
                    THEN {"High DOM mutation rate"} ELSE {})
              \cup (IF behavioral.content_increases_on_scroll
                    THEN {"Infinite scroll / Lazy loading"} ELSE {})
    IN [score |-> score,
        recommendation |-> IF score >= 40 THEN "guided" ELSE "automatic",
        reasons |-> reasons]

\* _calculate_hostility_score for a defense dict (None is dealt with by the
\* caller: defense.get raises AttributeError)
calculate_hostility_score(defense, challenge) ==
    [score |->   (IF defense.found_cookies THEN 50 ELSE 0)
               + (IF defense.found_scripts THEN 30 ELSE 0)
               + (IF defense.honeypots THEN 20 ELSE 0)
               + (IF challenge THEN 30 ELSE 0),
     reasons |-> (IF defense.found_cookies THEN {"Bot Cookies"} ELSE {})
                 \cup (IF defense.found_scripts
                       THEN {"Bot Defense Scripts detected"} ELSE {})
                 \cup (IF defense.honeypots THEN {"Honeypots detected"} ELSE {})
                 \cup (IF challenge
                       THEN {"Challenge/Verification requests detected"}
                       ELSE {})]

\* a sign-in requirement is folded into hostility by max
fold_signin(hostility, signin) ==
    IF signin.signin_detected
    THEN [score |-> IF signin.signin_likelihood_score > hostility.score
                    THEN signin.signin_likelihood_score ELSE hostility.score,
          reasons |-> hostility.reasons \cup signin.signin_reasons]
    ELSE hostility

\* faulty variant: the override applies above 40 only
is_hostile_strict(hostility_score) == hostility_score > 40

\* the test of the override: "if hostility_score >= 40"
is_hostile(hostility_score) == hostility_score >= 40

\* faulty variant: the override leaves the complexity score as it was
hostile_complexity_kept(complexity_score, hostility_score) == complexity_score

\* the complexity score under the override
hostile_complexity(complexity_score, hostility_score) ==
    IF complexity_score >= hostility_score THEN complexity_score
    ELSE hostility_score

\* the override logic of scan(): the four values written to the profile
synthesize(base, hostility) ==
    IF is_hostile(hostility.score)
    THEN [complexity_score |-> hostile_complexity(base.score, hostility.score),
          hostility_score |-> hostility.score,
          access_recommendation |-> "guided",
          complexity_reasons |-> {"Hostile Bot Defense Detected"}
                                     \cup hostility.reasons \cup base.reasons]
    ELSE [complexity_score |-> IF hostility.score > 0
                               THEN base.score + hostility.score
                               ELSE base.score,
          hostility_score |-> hostility.score,
          access_recommendation |-> base.recommendation,
          complexity_reasons |-> IF hostility.score > 0
                                 THEN base.reasons \cup hostility.reasons
                                 ELSE base.reasons]

\* the signals _calculate_complexity_score is given, read off the stages
behavioral_data(stages) ==
    LET anti_bot == field_or(stages["anti_bot_detect"],
                             [captcha |-> FALSE, cloudflare |-> FALSE])
        mutation_stats == field_or(stages["mutations"], [high |-> FALSE])
        scroll_dep == field_or(stages["scroll"],
                               [content_increases_on_scroll |-> FALSE])
    IN [captcha_detected |-> anti_bot.captcha,
        cloudflare_detected |-> anti_bot.cloudflare,
        mutation_high |-> mutation_stats.high,
        content_increases_on_scroll |-> scroll_dep.content_increases_on_scroll]

\* tech_data["is_spa"]
tech_is_spa(stages) ==
    field_or(stages["framework_detect"], "unknown")
        \in {"react", "vue", "angular", "svelte"}

\* Scanner.scan: the profile it returns, or that it raised
Scanner_scan(page) ==
    IF ~page.nav_ok
    THEN [raised |-> FALSE,
          profile |-> [errors |-> {"navigation"},
                       stages |-> [label \in Stages |-> Absent],
                       scores |-> Absent]]
    ELSE LET stages == [label \in Stages |-> safe_call(page, label)]
             errors == logged_errors(page)
             base == calculate_complexity_score(behavioral_data(stages),
                                                 tech_is_spa(stages))
             signin == field_or(stages["signin_detect"],
                                detect_signin_requirement({}))
         IN IF stages["bot_defense"] = Absent
            THEN [raised |-> TRUE,
                  profile |-> [errors |-> errors, stages |-> stages,
                               scores |-> Absent]]
            ELSE [raised |-> FALSE,
                  profile |->
                      [errors |-> errors, stages |-> stages,
                       scores |->
                           <<synthesize(base,
                                 fold_signin(
                                     calculate_hostility_score(
                                         stages["bot_defense"][1],
                                         page.challenge),
                                     signin))>>]]

(***************************************************************************)
(* The state handlers                                                      *)
(***************************************************************************)
\* a page on which every stage works and no signal shows
QuietPage ==
    [nav_ok |-> TRUE, failing |-> {}, captcha |-> FALSE, cloudflare |-> FALSE,
     framework |-> "unknown", mutation_high |-> FALSE, scroll_grows |-> FALSE,
     found_cookies |-> FALSE, found_scripts |-> FALSE, honeypots |-> FALSE,
     challenge |-> FALSE, signin |-> {}]

\* the sites the stealth probe meets: quiet, below the hostility threshold,
\* exactly at it, above it, complex without hostility, and sites on which
\* the scan returns no scores or raises
ProbePages ==
    {QuietPage,
     [QuietPage EXCEPT !.found_scripts = TRUE],
     [QuietPage EXCEPT !.signin = {"auth_text"}],
     [QuietPage EXCEPT !.found_cookies = TRUE],
     [QuietPage EXCEPT !.cloudflare = TRUE],
     [QuietPage EXCEPT !.nav_ok = FALSE],
     [QuietPage EXCEPT !.failing = {"bot_defense"}]}

\* stop_after_attempt(3) of do_prescan
probe_attempts == 3

\* retry(stop=stop_after_attempt(n), reraise=True): the result of the first
\* attempt that does not raise, None standing for an attempt that raised
retried(attempts, n) ==
    LET ok == {i \in 1..n : attempts[i] # Absent}
    IN IF ok = {} THEN Absent
       ELSE attempts[CHOOSE i \in ok : \A j \in ok : i <= j]

\* do_prescan, one attempt: browser.navigate, then Scanner.scan; the scores
\* of the profile it returns
do_prescan(reachable, page) ==
    IF ~reachable \/ Scanner_scan(page).raised THEN Absent
    ELSE <<Scanner_scan(page).profile.scores>>

\* faulty variant: the fallback recommends automatic access
ProbeFailedAutomatic ==
    <<[access_recommendation |-> "automatic", complexity_score |-> 100,
       complexity_reasons |-> {"Probe failed"}]>>

\* the profile _handle_init falls back to when the probe failed completely
ProbeFailedProfile ==
    <<[access_recommendation |-> "guided", complexity_score |-> 100,
       complexity_reasons |-> {"Probe failed"}]>>

\* the profile _handle_init goes on with
init_profile(probe) == IF probe = Absent THEN ProbeFailedProfile ELSE probe[1]

\* profile.get("access_recommendation", "automatic") and
\* profile.get("complexity_reasons", [])
profile_rec(profile) ==
    IF profile = Absent THEN "automatic" ELSE profile[1].access_recommendation
profile_reasons(profile) ==
    IF profile = Absent THEN {} ELSE profile[1].complexity_reasons

\* faulty variant: the operator is always offered both modes
ask_access_mode_free(recommendation, hostile, choice) == choice

\* UI.ask_access_mode: a single choice when the reason names hostility
ask_access_mode(recommendation, hostile, choice) ==
    IF recommendation = "guided" /\ hostile THEN "guided" ELSE choice

\* _handle_init outside CI mode: the access mode
init_mode(o, profile, choice) ==
    IF o.wizard_mode THEN profile_rec(profile)
    ELSE ask_access_mode(profile_rec(profile),
                         "Hostile Bot Defense Detected"
                             \in profile_reasons(profile),
                         choice)

\* _handle_init: GUIDED_ACCESS or RECON
init_target(o, profile, choice) ==
    IF o.ci_mode THEN "RECON"
    ELSE IF init_mode(o, profile, choice) = "guided" THEN "GUIDED_ACCESS"
         ELSE "RECON"

\* safe_write_json: the document replaces what the file held
safe_write_json(f, name, document) == [f EXCEPT ![name] = <<document>>]

\* _handle_init: interaction_log, by its keys and its access_mode
interaction_log(mode) ==
    [keys |-> {"access_mode", "complexity_score", "steps"},
     access_mode |-> mode]

\* do_solve: the interaction dict it writes to interaction.json
solved_interaction ==
    [keys |-> {"captcha_solved_manually", "final_url"}, access_mode |-> None]

\* _handle_init: CI mode goes to RECON at once; otherwise the probe, the
\* access mode, interaction.json, the transition
handle_init ==
    /\ AtTop("INIT")
    /\ \E page \in ProbePages :
          IF opts.ci_mode
          THEN Return(transition_to(session, init_target(opts, Absent, None)),
                      [NoNote EXCEPT !.site = <<page>>])
          ELSE \E reach \in [1..probe_attempts -> BOOLEAN],
                  choice \in {"automatic", "guided"} :
                   LET probe == retried([i \in 1..probe_attempts |->
                                            do_prescan(reach[i], page)],
                                        probe_attempts)
                       profile == init_profile(probe)
                   IN Returns(transition_to(session,
                                  init_target(opts, profile, choice)),
                              [NoNote EXCEPT
                                  !.site = <<page>>,
                                  !.profile = profile,
                                  !.probe_failed = (probe = Absent),
                                  !.mode = init_mode(opts, profile, choice),
                                  !.wrote = {"interaction"}],
                              safe_write_json(files, "interaction",
                                  interaction_log(
                                      init_mode(opts, profile, choice))))

\* _handle_guided_access (also dispatched for the legacy LOGIN)
handle_guided_access ==
    /\ \/ AtTop("GUIDED_ACCESS")
       \/ AtTop("LOGIN")
    /\ IF opts.ci_mode
       THEN Return(transition_to(session, "RECON"), NoNote)
       ELSE \E final_url \in Urls :
                Return(transition_to([session EXCEPT !.url = final_url,
                                          !.login_performed = TRUE], "RECON"),
                       NoNote)

\* the sites RECON and INTERACTIVE_SOLVE scan: quiet, hostile with a
\* CAPTCHA, and sites on which the scan returns no scores, has no anti-bot
\* reading, or raises
ReconPages ==
    {QuietPage,
     [QuietPage EXCEPT !.captcha = TRUE, !.found_cookies = TRUE],
     [QuietPage EXCEPT !.nav_ok = FALSE],
     [QuietPage EXCEPT !.failing = {"anti_bot_detect"}],
     [QuietPage EXCEPT !.failing = {"bot_defense"}]}

\* stop_after_attempt(2) of do_recon
recon_attempts == 2

\* how one attempt of do_recon goes apart from the scan: browser.navigate
\* raises, the health check finds the page blocked, a step from get_content
\* on raises, or none of these
ReconTries == {"navigate", "blocked", "content", "none"}

\* scan_profile.json as written by safe_write_json, reduced to the keys
\* that are read back: errors, tech_stack.anti_bot and the scores
write_scan_profile(f, profile) ==
    [f EXCEPT !.scan_profile =
                  <<[errors |-> profile.errors,
                     anti_bot |-> profile.stages["anti_bot_detect"],
                     scores |-> profile.scores]>>]

\* do_recon, one attempt: how it ended, the artifacts after it, what it wrote
do_recon(f, page, try) ==
    LET scanned == Scanner_scan(page)
    IN CASE try = "navigate" ->
                [result |-> "raised", files |-> f, wrote |-> {}]
         [] try = "blocked" ->
                [result |-> "needs_solve", files |-> f, wrote |-> {}]
         [] scanned.raised ->
                [result |-> "raised", files |-> f, wrote |-> {}]
         [] try = "content" ->
                [result |-> "raised",
                 files |-> write_scan_profile(f, scanned.profile),
                 wrote |-> {"scan_profile"}]
         [] OTHER ->
                [result |-> "ok",
                 files |-> write_scan_profile(f, scanned.profile),
                 wrote |-> {"scan_profile", "analysis_snapshot"}]

\* do_recon under retry: attempt i and, when it raised, the attempts after it
RECURSIVE recon_retried(_, _, _, _)
recon_retried(f, page, tries, i) ==
    LET r == do_recon(f, page, tries[i])
    IN IF r.result # "raised" \/ i = Len(tries) THEN r
       ELSE LET rest == recon_retried(r.files, page, tries, i + 1)
            IN [rest EXCEPT !.wrote = @ \cup r.wrote]

\* do_recon: use_headless = not self.session.get("login_performed", False)
use_headless(s) == ~s.login_performed

\* has_tech_stack: a profile returned after page.goto failed has no
\* tech_stack key
has_tech_stack(profile) == "navigation" \notin profile.errors

\* profile.get("tech_stack", {}).get("anti_bot", {}).get("captcha") on the
\* scan_profile.json read back: raises AttributeError when anti_bot is null
captcha_check_raises(stored) ==
    /\ stored # Absent
    /\ has_tech_stack(stored[1])
    /\ stored[1].anti_bot = Absent

captcha_check(stored) ==
    /\ stored # Absent
    /\ has_tech_stack(stored[1])
    /\ stored[1].anti_bot[1].captcha

\* faulty variant: a failed do_recon is not told from one that returned "ok"
recon_target_unchecked(o, result, captcha) ==
    CASE result = "needs_solve" -> "INTERACTIVE_SOLVE"
      [] OTHER -> IF captcha /\ ~o.ci_mode THEN "INTERACTIVE_SOLVE"
                  ELSE "LLM_ANALYSIS"

\* _handle_recon; result: what do_recon gave within its two attempts
recon_target(o, result, captcha) ==
    CASE result = "failed" -> "FAILED"
      [] result = "needs_solve" -> "INTERACTIVE_SOLVE"
      [] OTHER -> IF captcha /\ ~o.ci_mode THEN "INTERACTIVE_SOLVE"
                  ELSE "LLM_ANALYSIS"

handle_recon ==
    /\ AtTop("RECON")
    /\ \E page \in ReconPages, tries \in [1..recon_attempts -> ReconTries] :
           LET r == recon_retried(files, page, tries, 1)
               result == IF r.result = "raised" THEN "failed" ELSE r.result
           IN IF result = "ok" /\ captcha_check_raises(r.files.scan_profile)
              THEN Leaves(on_exception(session), "guard", "AttributeError",
                          r.files)
              ELSE Returns(transition_to(session,
                               recon_target(opts, result,
                                   result = "ok"
                                       /\ captcha_check(r.files.scan_profile))),
                           [NoNote EXCEPT !.wrote = r.wrote],
                           r.files)

\* the capture after the operator confirmed the solve, in the order of the
\* code; at: the step that raises, "none" when all succeed
CaptureSteps == {"scan", "storage_state", "content", "cookies", "none"}

capture(f, page, at) ==
    IF at = "scan" \/ Scanner_scan(page).raised
    THEN [captured |-> FALSE, files |-> f, wrote |-> {}]
    ELSE LET g == write_scan_profile(f, Scanner_scan(page).profile)
         IN CASE at = "storage_state" ->
                     [captured |-> FALSE, files |-> g,
                      wrote |-> {"scan_profile"}]
              [] at = "content" ->
                     [captured |-> FALSE, files |-> g,
                      wrote |-> {"scan_profile", "storage_state"}]
              [] at = "cookies" ->
                     [captured |-> FALSE,
                      files |-> safe_write_json(g, "interaction",
                                                solved_interaction),
                      wrote |-> {"scan_profile", "storage_state",
                                 "analysis_snapshot", "interaction"}]
              [] OTHER ->
                     [captured |-> TRUE,
                      files |-> safe_write_json(g, "interaction",
                                                solved_interaction),
                      wrote |-> {"scan_profile", "storage_state",
                                 "analysis_snapshot", "interaction",
                                 "cookies"}]

\* _handle_interactive_solve: a failed capture returns without a transition
interactive_solve_target(current, confirmed, captured) ==
    IF ~confirmed THEN "FAILED"
    ELSE IF captured THEN "LLM_ANALYSIS" ELSE current

\* UI.wait_for_solve is awaited whatever the mode
handle_interactive_solve ==
    /\ AtTop("INTERACTIVE_SOLVE")
    /\ \E confirmed \in BOOLEAN, page \in ReconPages, at \in CaptureSteps :
           LET c == IF confirmed THEN capture(files, page, at)
                    ELSE [captured |-> FALSE, files |-> files, wrote |-> {}]
           IN Returns(transition_to(session,
                          interactive_solve_target(session.state, confirmed,
                                                   c.captured)),
                      [NoNote EXCEPT !.wrote = c.wrote, !.prompted = TRUE],
                      c.files)

\* _handle_llm_analysis; possible: scraping_possible is truthy,
\* confident: confidence >= LLM_CONFIDENCE_THRESHOLD
llm_analysis_target(o, possible, confident, override) ==
    IF o.ci_mode
    THEN IF ~possible \/ ~confident THEN "FAILED" ELSE "USER_CONFIG"
    ELSE IF ~possible /\ ~o.wizard_mode /\ ~override THEN "FAILED"
         ELSE "USER_CONFIG"

\* LLM_CONFIDENCE_THRESHOLD (0.5), confidences being counted in tenths
LLM_CONFIDENCE_THRESHOLD == 5

\* what UnderstandingAgent.analyze returns: parse_json of the reply, with
\* scraping_possible and confidence each present or missing; an unparseable
\* reply gives {}, both missing
Understandings ==
    [scraping_possible : {Absent, <<FALSE>>, <<TRUE>>},
     confidence : {Absent, <<0>>, <<4>>, <<5>>, <<10>>}]

\* understanding.get("scraping_possible")
is_possible(understanding) == understanding.scraping_possible = <<TRUE>>

\* faulty variant: a missing confidence passes
is_confident_by_default(understanding) ==
    \/ understanding.confidence = Absent
    \/ understanding.confidence[1] >= LLM_CONFIDENCE_THRESHOLD

\* not understanding.get("confidence", 0) < LLM_CONFIDENCE_THRESHOLD
is_confident(understanding) ==
    ~(field_or(understanding.confidence, 0) < LLM_CONFIDENCE_THRESHOLD)

\* the cause is what the handler logs before it chooses FAILED
handle_llm_analysis ==
    /\ AtTop("LLM_ANALYSIS")
    /\ \E understanding \in Understandings, override \in BOOLEAN :
           LET target == llm_analysis_target(opts, is_possible(understanding),
                                             is_confident(understanding),
                                             override)
           IN Return(transition_to(session, target),
                     [NoNote EXCEPT
                         !.understanding = <<understanding>>,
                         !.wrote = {"llm_understanding"},
                         !.cause = IF opts.ci_mode /\ target = "FAILED"
                                   THEN "CI Mode Aborted" ELSE None])

\* UI.ask_fields_wizard: "retry" can only come from the interactive dialog, and
\* the dialog is only shown when there are suggested fields
ask_fields_wizard(has_fields, interactive, choice) ==
    IF ~has_fields THEN "fields"
    ELSE IF ~interactive THEN "fields"
    ELSE IF choice = "retry" THEN "retry" ELSE "fields"

\* _handle_user_config outside CI mode
user_config_target(o, has_fields, choice) ==
    IF o.wizard_mode
          /\ ask_fields_wizard(has_fields, o.interactive_mode, choice) = "retry"
    THEN "RECON"
    ELSE "CODEGEN"

\* available_fields of llm_understanding.json: none, two of which the first
\* is suggested, six with none suggested
FieldLists ==
    {<<>>,
     <<[name |-> "title", suggested |-> TRUE],
       [name |-> "price", suggested |-> FALSE]>>,
     [i \in 1..6 |-> [name |-> <<"a", "b", "c", "d", "e", "f">>[i],
                      suggested |-> FALSE]]}

\* llm_understanding.json as _handle_user_config reads it
ConfigUnderstandings ==
    [available_fields : FieldLists,
     recommended_browser_mode : {Absent, <<"headed">>}]

\* [f.get('name') for f in fields]
names_of(fields) == [i \in 1..Len(fields) |-> fields[i].name]

\* seq[:n]
first_n(seq, n) == SubSeq(seq, 1, IF Len(seq) < n THEN Len(seq) ELSE n)

\* UI.ask_fields: [] when there is nothing to select from, else all names or
\* a checked selection, which the prompt does not accept empty
ask_fields(available_fields, pick) ==
    IF available_fields = <<>> THEN <<>>
    ELSE IF pick = "all" THEN names_of(available_fields)
    ELSE <<available_fields[1].name>>

\* the suggested fields the wizard branch passes on
suggested_fields(all_fields) ==
    LET suggested == SelectSeq(all_fields, LAMBDA f : f.suggested)
    IN IF suggested = <<>> THEN first_n(all_fields, 5) ELSE suggested

\* UI.ask_fields_wizard when it returns a list of names
wizard_fields(all_fields, interactive, choice, pick) ==
    IF suggested_fields(all_fields) = <<>> THEN ask_fields(all_fields, pick)
    ELSE IF ~interactive \/ choice = "yes"
    THEN names_of(suggested_fields(all_fields))
    ELSE ask_fields(all_fields, pick)

\* the fields of the CI branch
ci_fields(all_fields) ==
    IF first_n(names_of(all_fields), 5) = <<>>
    THEN <<"item_title", "item_price">>
    ELSE first_n(names_of(all_fields), 5)

\* UI.confirm_browser_mode
confirm_browser_mode(recommended, wizard_mode, answer) ==
    IF wizard_mode THEN recommended ELSE answer

\* the browser_mode of the wizard and the expert branch
browser_mode(o, login_performed, understanding, answer) ==
    confirm_browser_mode(
        IF login_performed THEN "headed"
        ELSE field_or(understanding.recommended_browser_mode, "headless"),
        o.wizard_mode, answer)

\* "Logic to convert UI choices to Runtime config"
pagination_config(pagination) ==
    [mode |-> IF pagination = "all_pages" THEN "all" ELSE "first_page",
     max_pages |-> IF pagination = "limit_5" THEN 5
                   ELSE IF pagination = "all_pages" THEN 50 ELSE 1]

\* what the operator answers in USER_CONFIG; a prompt that is not shown
\* (the suggested-fields dialog outside interactive wizard mode, the
\* browser mode prompt in wizard mode) has the answer "-"
ConfigAnswers(o) ==
    [choice : IF o.wizard_mode /\ o.interactive_mode
              THEN {"yes", "no", "retry"} ELSE {"-"},
     pick : {"all", "choose"},
     pagination : {"all_pages", "first_page", "limit_5"},
     format : {"json", "xlsx"},
     browser : IF o.wizard_mode THEN {"-"} ELSE {"headless", "headed"}]

\* the config dict of the wizard and the expert branch
run_config(o, login_performed, understanding, answer) ==
    [fields |-> IF o.wizard_mode
                THEN wizard_fields(understanding.available_fields,
                                   o.interactive_mode, answer.choice,
                                   answer.pick)
                ELSE ask_fields(understanding.available_fields, answer.pick),
     pagination |-> answer.pagination,
     pagination_config |-> pagination_config(answer.pagination),
     format |-> answer.format,
     browser_mode |-> browser_mode(o, login_performed, understanding,
                                   answer.browser)]

\* safe_write_json(project_dir / "run_config.json", config)
write_run_config(f, config) == [f EXCEPT !.run_config = <<config>>]

\* _handle_user_config: the CI branch sets fields, pagination, fmt and
\* browser_mode but never pagination_config, so building the config dict
\* raises UnboundLocalError before run_config.json is written
handle_user_config ==
    /\ AtTop("USER_CONFIG")
    /\ IF opts.ci_mode
       THEN Raised(session, "UnboundLocalError")
       ELSE \E understanding \in ConfigUnderstandings,
               answer \in ConfigAnswers(opts) :
                LET target ==
                        user_config_target(opts,
                            suggested_fields(understanding.available_fields)
                                # <<>>,
                            answer.choice)
                IN IF target = "RECON"
                   THEN Return(transition_to(session, target),
                               [NoNote EXCEPT !.prompted = TRUE])
                   ELSE Returns(transition_to(session, target),
                                [NoNote EXCEPT !.wrote = {"run_config"},
                                               !.prompted = TRUE],
                                write_run_config(files,
                                    run_config(opts, session.login_performed,
                                               understanding, answer)))

\* stop_after_attempt(2) of do_gen
codegen_attempts == 2

\* CodeGenerator(project_dir, wizard_mode=...): __init__ takes project_dir
\* only, so the call raises TypeError
CodeGenerator_accepts(keywords) == keywords \subseteq {"project_dir"}

\* _handle_codegen: the agent is constructed, then do_gen is tried twice and
\* its last error re-raised; attempts[i]: CodeGenerator.generate returned
codegen_target(constructed, attempts) ==
    IF constructed /\ \E i \in 1..codegen_attempts : attempts[i]
    THEN "TEST" ELSE "raise"

handle_codegen ==
    /\ AtTop("CODEGEN")
    /\ \E attempts \in [1..codegen_attempts -> BOOLEAN] :
           LET constructed == CodeGenerator_accepts({"project_dir",
                                                     "wizard_mode"})
           IN IF codegen_target(constructed, attempts) = "TEST"
              THEN Return(transition_to(session, "TEST"),
                          [NoNote EXCEPT !.wrote = {"generated_scraper"}])
              ELSE Raised(session, IF constructed THEN "CodegenError"
                                   ELSE "TypeError")

(***************************************************************************)
(* RepairLoop.run                                                          *)
(***************************************************************************)
\* the call: attempts = 0, about to enter the while loop
RepairLoop_run(column_hints, budget, flagged) ==
    [pc |-> "test", attempts |-> 0, max |-> budget, hints |-> column_hints,
     log |-> <<>>, result |-> FALSE, flagged |-> flagged]

\* the while condition
loop_again(attempts, max) == attempts <= max

\* faulty variant: off by one in the test of the last attempt
exhausted_late(attempts, max) == attempts > max

\* "if attempts == self.max_attempts" after a failed test
exhausted(attempts, max) == attempts = max

Returned(l, value) == [l EXCEPT !.pc = "done", !.result = value]

\* faulty variant: a passing test ends the loop only after a repair
after_test_ignoring_first(l, success) ==
    LET m == [l EXCEPT !.log = Append(@, IF success THEN "test_ok"
                                         ELSE "test_failed")]
    IN IF success /\ l.attempts > 0 THEN Returned(m, TRUE)
       ELSE IF exhausted(l.attempts, l.max) THEN Returned(m, FALSE)
       ELSE [m EXCEPT !.pc = "repair"]

\* test_runner() returned (success, output)
after_test(l, success) ==
    LET m == [l EXCEPT !.log = Append(@, IF success THEN "test_ok"
                                         ELSE "test_failed")]
    IN IF success THEN Returned(m, TRUE)
       ELSE IF exhausted(l.attempts, l.max) THEN Returned(m, FALSE)
       ELSE [m EXCEPT !.pc = "repair"]

\* faulty variant: a failure of the Repair agent is logged and the loop goes on
after_repair_swallowing(l, raised) ==
    LET m == [l EXCEPT !.log = Append(@, IF raised THEN "repair_raised"
                                         ELSE "repair")]
    IN IF loop_again(l.attempts + 1, l.max)
       THEN [m EXCEPT !.attempts = @ + 1, !.pc = "test"]
       ELSE Returned([m EXCEPT !.attempts = @ + 1], FALSE)

\* agent.repair(...) returned or raised
after_repair(l, raised) ==
    LET m == [l EXCEPT !.log = Append(@, IF raised THEN "repair_raised"
                                         ELSE "repair")]
    IN IF raised THEN Returned(m, FALSE)
       ELSE IF loop_again(l.attempts + 1, l.max)
            THEN [m EXCEPT !.attempts = @ + 1, !.pc = "test"]
            ELSE Returned([m EXCEPT !.attempts = @ + 1], FALSE)

loop_test ==
    /\ loop.pc = "test"
    /\ \E success \in BOOLEAN : loop' = after_test(loop, success)
    /\ UNCHANGED <<session, disk, wide_event, opts, pc, call, trans, files,
                   scan, scraper, units>>

loop_repair ==
    /\ loop.pc = "repair"
    /\ \E raised \in BOOLEAN : loop' = after_repair(loop, raised)
    /\ UNCHANGED <<session, disk, wide_event, opts, pc, call, trans, files,
                   scan, scraper, units>>

\* how often test_runner and the Repair agent were invoked in this call
Count(log, kinds) == Cardinality({i \in 1..Len(log) : log[i] \in kinds})
Tests(l) == Count(l.log, {"test_ok", "test_failed"})
Repairs(l) == Count(l.log, {"repair", "repair_raised"})

(***************************************************************************)
(* TEST, REPAIR, APPROVED                                                  *)
(***************************************************************************)
ReviewActions == {"approve", "fix_columns", "guided", "retry", "abort"}
TestFailureActions == {"repair", "config", "edit", "abort"}
RepairFailureActions == {"config", "edit", "abort"}

\* Zero-Click: wizard mode without the interactive flag
zero_click(o) == o.wizard_mode /\ ~o.interactive_mode

\* _handle_test: whether UI.review_data_quality is asked
test_reviewed(o, success, data, has_issues) ==
    success /\ ~o.ci_mode /\ data /\ ~(zero_click(o) /\ ~has_issues)

\* _handle_test: the state it moves to
test_target(o, success, data, has_issues, action, approve, fail_action) ==
    IF success
    THEN IF o.ci_mode THEN (IF data THEN "APPROVED" ELSE "FAILED")
         ELSE IF data
              THEN IF zero_click(o) /\ ~has_issues THEN "APPROVED"
                   ELSE CASE action = "approve" -> "APPROVED"
                          [] action = "fix_columns" -> "REPAIR"
                          [] action = "guided" -> "GUIDED_ACCESS"
                          [] action = "retry" -> "USER_CONFIG"
                          [] OTHER -> "DONE"
              ELSE IF zero_click(o) THEN "DONE"
                   ELSE IF approve THEN "APPROVED" ELSE "DONE"
    ELSE IF o.ci_mode \/ zero_click(o) THEN "REPAIR"
         ELSE CASE fail_action = "repair" -> "REPAIR"
                [] fail_action = "config" -> "USER_CONFIG"
                [] fail_action = "edit" -> "TEST"
                [] OTHER -> "FAILED"

\* _handle_test: the session flags the review sets
test_flags(s, reviewed, action, bad_cols) ==
    IF reviewed /\ action = "fix_columns"
    THEN [s EXCEPT !.fix_columns = bad_cols]
    ELSE IF reviewed /\ action = "guided"
         THEN [s EXCEPT !.force_guided = TRUE]
         ELSE s

\* UI.review_data_quality returns (action, bad_cols): the ticked columns for
\* "fix_columns", None for every other action
ReviewAnswers ==
    {[action |-> a, bad_cols |-> Absent] : a \in ReviewActions \ {"fix_columns"}}
    \cup {[action |-> "fix_columns", bad_cols |-> <<c>>] : c \in ColumnChoices}

NoReview == [action |-> "abort", bad_cols |-> Absent]

\* one execution of the test and the answers to the prompts it leads to
\* (a prompt that is not shown has no answer: its field holds a filler)
TestRuns ==
    {[success |-> FALSE, data |-> FALSE, has_issues |-> FALSE,
      review |-> NoReview, approve |-> FALSE, fail_action |-> f] :
         f \in TestFailureActions}
    \cup {[success |-> TRUE, data |-> FALSE, has_issues |-> FALSE,
           review |-> NoReview, approve |-> a, fail_action |-> "abort"] :
              a \in BOOLEAN}
    \cup {[success |-> TRUE, data |-> TRUE, has_issues |-> h,
           review |-> r, approve |-> FALSE, fail_action |-> "abort"] :
              h \in BOOLEAN, r \in ReviewAnswers}

handle_test ==
    /\ AtTop("TEST")
    /\ \E t \in TestRuns :
           LET reviewed == test_reviewed(opts, t.success, t.data, t.has_issues)
           IN Return(transition_to(
                         test_flags(session, reviewed, t.review.action,
                                    t.review.bad_cols),
                         test_target(opts, t.success, t.data, t.has_issues,
                                     t.review.action, t.approve,
                                     t.fail_action)),
                     IF reviewed
                     THEN [NoNote EXCEPT !.action = t.review.action,
                                         !.cols = t.review.bad_cols]
                     ELSE NoNote)

\* faulty variant: the flagged columns are not handed on
repair_hints_dropped(s) == Absent

\* _handle_repair: session.get("fix_columns", None)
repair_hints(s) == s.fix_columns

\* _handle_repair: the key is popped when its value is truthy
pop_fix_columns(s) ==
    IF truthy(s.fix_columns) THEN [s EXCEPT !.fix_columns = Absent] ELSE s

\* _handle_repair up to the call of loop.run
handle_repair_call ==
    /\ AtTop("REPAIR")
    /\ session' = pop_fix_columns(session)
    /\ loop' = RepairLoop_run(repair_hints(session), max_attempts,
                              trans.by = "handler" /\ trans.from = "TEST"
                                  /\ trans.action = "fix_columns")
    /\ call' = [call EXCEPT !.handled = TRUE]
    /\ UNCHANGED <<disk, wide_event, opts, pc, trans, files, scan, scraper, units>>

\* _handle_repair: the state it moves to once loop.run returned `fixed`
repair_target(o, fixed, data, action, approve, fail_action) ==
    IF fixed
    THEN IF o.ci_mode THEN "APPROVED"
         ELSE IF data
              THEN CASE action = "approve" -> "APPROVED"
                     [] action = "fix_columns" -> "FAILED"
                     [] action = "retry" -> "CODEGEN"
                     [] OTHER -> "DONE"
              ELSE IF approve THEN "APPROVED" ELSE "DONE"
    ELSE IF o.ci_mode THEN "FAILED"
         ELSE CASE fail_action = "config" -> "USER_CONFIG"
                [] fail_action = "edit" -> "TEST"
                [] OTHER -> "FAILED"

\* _handle_repair: the review after a successful repair
repair_reviewed(o, fixed, data) == fixed /\ ~o.ci_mode /\ data

repair_flags(s, reviewed, action, bad_cols) ==
    IF reviewed /\ action = "fix_columns"
    THEN [s EXCEPT !.fix_columns = bad_cols]
    ELSE s

\* what follows loop.run in _handle_repair: the freshly loaded data and the
\* answers to the prompts shown
RepairAnswers ==
    {[data |-> TRUE, review |-> r, approve |-> FALSE, fail_action |-> "abort"] :
         r \in ReviewAnswers}
    \cup {[data |-> FALSE, review |-> NoReview, approve |-> a,
           fail_action |-> f] : a \in BOOLEAN, f \in RepairFailureActions}

\* _handle_repair after loop.run returned
handle_repair_decide ==
    /\ pc = "loop"
    /\ session.state = "REPAIR"
    /\ loop.pc = "done"
    /\ \E r \in RepairAnswers :
           LET fixed == loop.result
               reviewed == repair_reviewed(opts, fixed, r.data)
           IN Return(transition_to(
                         repair_flags(session, reviewed, r.review.action,
                                      r.review.bad_cols),
                         repair_target(opts, fixed, r.data, r.review.action,
                                       r.approve, r.fail_action)),
                     [NoNote EXCEPT
                          !.action = IF reviewed THEN r.review.action
                                     ELSE IF ~fixed /\ ~opts.ci_mode
                                          THEN r.fail_action ELSE "-",
                          !.cols = IF reviewed THEN r.review.bad_cols
                                   ELSE Absent,
                          !.fixed = fixed,
                          !.flagged = loop.flagged,
                          !.hints = loop.hints])

\* faulty variant: a failed final run is sent back to REPAIR
final_run_target_repairs(success) == IF success THEN "DONE" ELSE "REPAIR"

\* _handle_final_run
final_run_target(success) == IF success THEN "DONE" ELSE "FAILED"

\* how the subprocess of the final run can end; cannot_start: subprocess.run
\* raised before the script ran (OSError, PermissionError)
FinalRuns == {"data", "no_data", "exit_code", "timeout", "cannot_start"}

\* ScriptTester.run_test: (success, output); it catches every exception
run_test(ended) ==
    [success |-> ended = "data",
     output |-> CASE ended = "data" -> "stdout"
                  [] ended = "no_data" -> "Script ran but produced no data."
                  [] ended = "exit_code" -> "Process exited with code 1."
                  [] ended = "cannot_start" -> "Unexpected execution error"
                  [] OTHER -> "Execution timed out (600s)."]

\* ScriptTester.run_test has an except clause for every Exception after its
\* try, so no way the subprocess ends makes it raise
run_test_raises(ended) == FALSE

\* stop_after_attempt(2) of do_final
final_run_attempts == 2

\* do_final under @retry(retry_if_exception_type(Exception), reraise=True):
\* called again only when it raised; tries[i]: how the i-th execution ends
RECURSIVE do_final(_, _)
do_final(tries, i) ==
    IF ~run_test_raises(tries[i]) \/ i = final_run_attempts
    THEN [result |-> run_test(tries[i]), attempts |-> i]
    ELSE do_final(tries, i + 1)

\* the cause is the output run_test returned with success False
handle_final_run ==
    /\ AtTop("APPROVED")
    /\ \E tries \in [1..final_run_attempts -> FinalRuns] :
           LET final == do_final(tries, 1)
               success == final.result.success
               output == final.result.output
           IN Return(transition_to(session, final_run_target(success)),
                     [NoNote EXCEPT !.cause = IF success THEN None
                                              ELSE output,
                                    !.attempts = final.attempts])

Next ==
    \/ run_start
    \/ handle_init
    \/ handle_guided_access
    \/ handle_recon
    \/ handle_interactive_solve
    \/ handle_llm_analysis
    \/ handle_user_config
    \/ handle_codegen
    \/ handle_test
    \/ handle_repair_call
    \/ loop_test
    \/ loop_repair
    \/ handle_repair_decide
    \/ handle_final_run
    \/ handler_exception
    \/ handler_interrupt
    \/ unhandled_state
    \/ run_internal_returns
    \/ emit_wide_event

Spec == Init /\ [][Next]_vars

(***************************************************************************)
(* RepairLoop.run on its own: any budget, any column hints                 *)
(***************************************************************************)
HintChoices == {Absent} \cup {<<c>> : c \in ColumnChoices}

LoopInit ==
    /\ session = create_project("u0")
    /\ disk = session
    /\ wide_event = <<>>
    /\ opts = [ci_mode |-> FALSE, wizard_mode |-> TRUE,
               interactive_mode |-> FALSE]
    /\ pc = "repair_loop"
    /\ call = NewCall(0, disk)
    /\ trans = NoNote
    /\ files = NoFiles
    /\ scan = ScanIdle
    /\ scraper = ScraperIdle
    /\ UnitsAtRest
    /\ \E budget \in 0..MaxBudget, hints \in HintChoices :
           loop = RepairLoop_run(hints, budget, FALSE)

LoopNext ==
    \/ loop_test
    \/ loop_repair

LoopSpec == LoopInit /\ [][LoopNext]_vars

(***************************************************************************)
(* Scanner.scan on its own: any signals, any failing stages                *)
(***************************************************************************)
\* pages on which every stage works, with every combination of signals
SignalPages ==
    [nav_ok : {TRUE}, failing : {{}}, captcha : BOOLEAN, cloudflare : BOOLEAN,
     framework : {"unknown", "react"}, mutation_high : BOOLEAN,
     scroll_grows : BOOLEAN, found_cookies : BOOLEAN, found_scripts : BOOLEAN,
     honeypots : BOOLEAN, challenge : BOOLEAN, signin : SUBSET SigninSignals]

\* a page that shows every signal
LoudPage ==
    [nav_ok |-> TRUE, failing |-> {}, captcha |-> TRUE, cloudflare |-> TRUE,
     framework |-> "react", mutation_high |-> TRUE, scroll_grows |-> TRUE,
     found_cookies |-> TRUE, found_scripts |-> TRUE, honeypots |-> TRUE,
     challenge |-> TRUE, signin |-> {"auth_text"}]

\* the loud page with any set of stages failing, and with page.goto failing
FailurePages ==
    {[LoudPage EXCEPT !.failing = f] : f \in SUBSET Stages}
    \cup {[LoudPage EXCEPT !.nav_ok = FALSE]}

ScanInit ==
    /\ session = create_project("u0")
    /\ disk = session
    /\ wide_event = <<>>
    /\ opts = [ci_mode |-> FALSE, wizard_mode |-> TRUE,
               interactive_mode |-> FALSE]
    /\ pc = "scan"
    /\ call = NewCall(0, disk)
    /\ loop = LoopIdle
    /\ trans = NoNote
    /\ files = NoFiles
    /\ scraper = ScraperIdle
    /\ UnitsAtRest
    /\ \E page \in SignalPages \cup FailurePages :
           scan = [pc |-> "ready", page |-> page]

\* one call of Scanner.scan
scanner_scan ==
    /\ scan.pc = "ready"
    /\ LET result == Scanner_scan(scan.page)
       IN scan' = [pc |-> IF result.raised THEN "raised" ELSE "returned",
                   page |-> scan.page,
                   profile |-> result.profile]
    /\ UNCHANGED <<session, disk, wide_event, opts, pc, call, loop, trans,
                   files, scraper, units>>

ScanNext == scanner_scan

ScanSpec == ScanInit /\ [][ScanNext]_vars

(***************************************************************************)
(* BaseScraper (scrapewizard_runtime/base.py)                              *)
(***************************************************************************)
\* the largest max_pages a pagination_config carries
MaxPagesBound == 3
\* how many values the hash of a process with colliding hashes takes
CollidingHashes == 5

\* A string is the sequence of its characters; None is PyNone.
PyNone == <<"<None>">>

\* the characters of the strings below and of str(None)
Characters == <<"a", "A", "b", " ", "|", "N", "o", "n", "e">>

\* str(v)
str_of(v) == IF v = PyNone THEN <<"N", "o", "n", "e">> ELSE v

RECURSIVE lstrip(_)
lstrip(s) == IF s # <<>> /\ Head(s) = " " THEN lstrip(Tail(s)) ELSE s

RECURSIVE rstrip(_)
rstrip(s) ==
    IF s # <<>> /\ s[Len(s)] = " " THEN rstrip(SubSeq(s, 1, Len(s) - 1))
    ELSE s

\* str.strip()
strip(s) == rstrip(lstrip(s))

\* str.lower()
lower(s) ==
    [i \in 1..Len(s) |-> CASE s[i] = "A" -> "a"
                           [] s[i] = "N" -> "n"
                           [] OTHER -> s[i]]

\* sep.join(parts)
RECURSIVE join(_, _)
join(sep, parts) ==
    IF parts = <<>> THEN <<>>
    ELSE IF Len(parts) = 1 THEN parts[1]
    ELSE parts[1] \o sep \o join(sep, Tail(parts))

\* content_str = "|".join(str(v).strip().lower() for v in res.values());
\* a record is the sequence of its values, in the order of the dict
content_str(res) ==
    join(<<"|">>, [i \in 1..Len(res) |-> lower(strip(str_of(res[i])))])

\* a string as a number, one digit per character
RECURSIVE code(_)
code(s) ==
    IF s = <<>> THEN 0
    ELSE code(SubSeq(s, 1, Len(s) - 1)) * (Len(Characters) + 1)
         + (CHOOSE i \in 1..Len(Characters) : Characters[i] = s[Len(s)])

\* the builtin hash of a string differs from process to process; it is
\* modelled by one that tells all strings apart and one that does not
HashSeeds == {"distinct", "colliding"}

hash(seed, s) ==
    IF seed = "distinct" THEN code(s) ELSE code(s) % CollidingHashes

\* a record parse_item returns, by its values
Parsed(values) == [kind |-> "dict", data |-> values]

\* parse_item returns None or something that is no dict (a coroutine), or
\* raises
NotParsed(kind) == [kind |-> kind, data |-> <<>>]

\* the pages a run may meet, each by what parse_item makes of its items:
\* no items; records that differ in case only; in surrounding blanks only;
\* in None against "None" only; items that give no record (None, no dict,
\* an exception, a record of None only, an empty record); two records
\* that share nothing
PageItems ==
    {<<>>,
     <<Parsed(<< <<"A", "b">> >>), Parsed(<< <<"a", "b">> >>)>>,
     <<Parsed(<< <<" ", "a", "b", " ">> >>), Parsed(<< <<"a">> >>)>>,
     <<Parsed(<< <<"b">>, PyNone >>),
       Parsed(<< <<"b">>, <<"N", "o", "n", "e">> >>)>>,
     <<NotParsed("none"), NotParsed("not_dict"), NotParsed("raises"),
       Parsed(<< PyNone >>), Parsed(<<>>)>>,
     <<Parsed(<< <<"a">> >>), Parsed(<< <<"b">>, PyNone >>)>>}

\* collect: the test a parsed item passes to be appended to page_results
is_valid(outcome) ==
    /\ outcome.kind = "dict"
    /\ outcome.data # <<>>
    /\ \E i \in 1..Len(outcome.data) : outcome.data[i] # PyNone

\* collect: page_results
page_results(items) ==
    LET kept == SelectSeq(items, is_valid)
    IN [i \in 1..Len(kept) |-> kept[i].data]

RECURSIVE unique_from(_, _, _, _, _)
unique_from(results, seed, i, seen_hashes, unique) ==
    IF i > Len(results) THEN unique
    ELSE LET content_hash == hash(seed, content_str(results[i]))
         IN IF content_hash \notin seen_hashes
            THEN unique_from(results, seed, i + 1,
                             seen_hashes \cup {content_hash},
                             Append(unique, results[i]))
            ELSE unique_from(results, seed, i + 1, seen_hashes, unique)

\* faulty variant: records are told apart as they are, not by their hash
unique_results_exact(results, seed) ==
    LET first(i) == \A j \in 1..(i - 1) : results[j] # results[i]
        kept == {i \in 1..Len(results) : first(i)}
        RECURSIVE pick(_)
        pick(i) == IF i > Len(results) THEN <<>>
                   ELSE IF i \in kept THEN <<results[i]>> \o pick(i + 1)
                   ELSE pick(i + 1)
    IN pick(1)

\* collect: "Robust Deduplication (across all pages)"
unique_results(results, seed) == unique_from(results, seed, 1, {}, <<>>)

\* collect, once get_items returned
collect(b, items) ==
    LET extended == b.results \o page_results(items)
        unique == unique_results(extended, b.seed)
    IN [b EXCEPT !.results = unique,
                 !.removed = Len(extended) - Len(unique),
                 !.collected = @ + 1]

\* what _handle_pagination meets when it looks for the next button
ButtonStates == {"absent", "hidden", "visible", "query_fails", "click_fails"}

\* faulty variant: the button is clicked without asking whether it is
\* visible
handle_pagination_unseen(b, button) ==
    IF b.config.mode = "first_page"
    THEN [b EXCEPT !.button = None, !.advanced = FALSE]
    ELSE LET count == field_or(b.page_count, 1)
         IN IF count >= b.config.max_pages \/ ~b.next_selector
            THEN [b EXCEPT !.page_count = <<count>>, !.button = None,
                           !.advanced = FALSE]
            ELSE IF button \in {"visible", "hidden"}
            THEN [b EXCEPT !.page_count = <<count + 1>>, !.button = button,
                           !.advanced = TRUE]
            ELSE [b EXCEPT !.page_count = <<count>>, !.button = button,
                           !.advanced = FALSE]

\* _handle_pagination; button: None when the page was not asked for it
handle_pagination(b, button) ==
    IF b.config.mode = "first_page"
    THEN [b EXCEPT !.button = None, !.advanced = FALSE]
    ELSE LET count == field_or(b.page_count, 1)
         IN IF count >= b.config.max_pages \/ ~b.next_selector
            THEN [b EXCEPT !.page_count = <<count>>, !.button = None,
                           !.advanced = FALSE]
            ELSE IF button = "visible"
            THEN [b EXCEPT !.page_count = <<count + 1>>, !.button = button,
                           !.advanced = TRUE]
            ELSE [b EXCEPT !.page_count = <<count>>, !.button = button,
                           !.advanced = FALSE]

\* save: write_json(self.results, output/data.json)
save(b) == [b EXCEPT !.data = <<b.results>>]

\* the pagination_config a script is generated with
PaginationConfigs ==
    [mode : {"first_page", "all"}, max_pages : 1..MaxPagesBound]

\* the configs USER_CONFIG writes for the choices that visit few pages
WrittenConfigs == {pagination_config(p) : p \in {"first_page", "limit_5"}}

\* a generated script constructs its scraper and calls run()
ScraperInit ==
    /\ session = create_project("u0")
    /\ disk = session
    /\ wide_event = <<>>
    /\ opts = [ci_mode |-> FALSE, wizard_mode |-> TRUE,
               interactive_mode |-> FALSE]
    /\ pc = "scraper"
    /\ call = NewCall(0, disk)
    /\ loop = LoopIdle
    /\ trans = NoNote
    /\ files = NoFiles
    /\ scan = ScanIdle
    /\ UnitsAtRest
    /\ \E config \in PaginationConfigs \cup WrittenConfigs,
          next_selector \in BOOLEAN,
          seed \in HashSeeds :
           scraper = [ScraperIdle EXCEPT !.pc = "setup", !.config = config,
                                         !.next_selector = next_selector,
                                         !.seed = seed]

ScraperStep(b) ==
    /\ scraper' = b
    /\ UNCHANGED <<session, disk, wide_event, opts, pc, call, loop, trans,
                   files, scan, units>>

\* run: setup, navigate, wait_for_idle; any of them may raise
scraper_setup ==
    /\ scraper.pc = "setup"
    /\ \E ok \in BOOLEAN :
           ScraperStep([scraper EXCEPT !.pc = IF ok THEN "collect"
                                             ELSE "raised"])

\* run: await self.collect(); get_items may raise
scraper_collect ==
    /\ scraper.pc = "collect"
    /\ \/ ScraperStep([scraper EXCEPT !.pc = "raised",
                                      !.collected = @ + 1])
       \/ \E items \in PageItems :
              ScraperStep([collect(scraper, items) EXCEPT !.pc = "paginate"])

\* run: if not await self._handle_pagination(): break
scraper_handle_pagination ==
    /\ scraper.pc = "paginate"
    /\ \E button \in ButtonStates :
           LET b == handle_pagination(scraper, button)
           IN ScraperStep([b EXCEPT !.pc = IF b.advanced THEN "collect"
                                           ELSE "save",
                                    !.shown = button])

\* run: await self.save()
scraper_save ==
    /\ scraper.pc = "save"
    /\ ScraperStep([save(scraper) EXCEPT !.pc = "done"])

ScraperNext ==
    \/ scraper_setup
    \/ scraper_collect
    \/ scraper_handle_pagination
    \/ scraper_save

ScraperSpec == ScraperInit /\ [][ScraperNext]_vars

\* asyncio.run(_run()) runs the coroutine until it returns or raises
ScraperFairSpec == ScraperSpec /\ WF_vars(ScraperNext)

(***************************************************************************)
(* ScriptTester.run_test (runtime/tester.py)                               *)
(***************************************************************************)
\* how many times the script of one project is executed
MaxExecutions == 4

\* how an execution ends and what it wrote to output/data.json before:
\* nothing, an empty list ("[]", two bytes) or records
ScriptEnds ==
    [how : {"exit_0", "exit_1", "timeout"},
     wrote : {"nothing", "empty", "data"}]
    \cup {[how |-> "cannot_start", wrote |-> "nothing"]}

\* "Cleanup stale output to prevent false positives": a failure of
\* os.remove is passed over
cleanup(output, remove_fails) ==
    IF output # Absent /\ ~remove_fails THEN Absent ELSE output

\* output/data.json after execution n of the script
script_writes(output, wrote, n) ==
    CASE wrote = "nothing" -> output
      [] wrote = "empty" -> <<[nonempty |-> FALSE, by |-> n]>>
      [] OTHER -> <<[nonempty |-> TRUE, by |-> n]>>

\* output_file.exists() and output_file.stat().st_size > 2
has_data(output) == output # Absent /\ output[1].nonempty

\* ScriptTester.run_test, execution n, with output/data.json as it finds it
ScriptTester_run_test(output, remove_fails, ended, n) ==
    LET after == script_writes(cleanup(output, remove_fails), ended.wrote, n)
    IN [success |-> ended.how = "exit_0" /\ has_data(after),
        how |-> ended.how,
        wrote |-> ended.wrote,
        remove_failed |-> output # Absent /\ remove_fails,
        output |-> after]

\* a project whose script has not been executed yet
TesterInit ==
    /\ session = create_project("u0")
    /\ disk = session
    /\ wide_event = <<>>
    /\ opts = [ci_mode |-> FALSE, wizard_mode |-> TRUE,
               interactive_mode |-> FALSE]
    /\ pc = "tester"
    /\ call = NewCall(0, disk)
    /\ loop = LoopIdle
    /\ trans = NoNote
    /\ files = NoFiles
    /\ scan = ScanIdle
    /\ scraper = ScraperIdle
    /\ tester = [TesterIdle EXCEPT !.pc = "ready"]
    /\ browser = BrowserIdle
    /\ client = ClientIdle
    /\ agent = AgentIdle

\* one call of ScriptTester.run_test (by TEST, the Repair Loop or the final
\* run)
tester_run_test ==
    /\ tester.pc = "ready"
    /\ tester.runs < MaxExecutions
    /\ \E remove_fails \in BOOLEAN, ended \in ScriptEnds :
           LET r == ScriptTester_run_test(tester.output, remove_fails, ended,
                                          tester.runs + 1)
           IN tester' = [tester EXCEPT !.runs = @ + 1,
                                       !.output = r.output,
                                       !.last = <<r>>]
    /\ UNCHANGED <<session, disk, wide_event, opts, pc, call, loop, trans,
                   files, scan, scraper, browser, client, agent>>

TesterNext == tester_run_test

TesterSpec == TesterInit /\ [][TesterNext]_vars

(***************************************************************************)
(* The browser sessions of the handlers (recon/browser.py and the do_*     *)
(* coroutines of core/orchestrator.py)                                     *)
(***************************************************************************)
\* how many handlers with a browser are run one after the other
MaxHandlers == 2

\* the coroutines that own a BrowserManager: do_prescan (INIT), do_login
\* (GUIDED_ACCESS), do_recon (RECON), do_solve (INTERACTIVE_SOLVE)
BrowserHandlers == {"do_prescan", "do_login", "do_recon", "do_solve"}

\* stop_after_attempt of the coroutine; do_login and do_solve have no
\* @retry
browser_attempts(handler) ==
    CASE handler = "do_prescan" -> probe_attempts
      [] handler = "do_recon" -> recon_attempts
      [] OTHER -> 1

\* the awaits of BrowserManager.start, in order, each with what it leaves
\* in the manager once it returned
StartSteps == <<"playwright", "browser", "context", "page">>

\* BrowserManager.start: the step that raises, "none" when all succeed;
\* what was started before is kept in the manager's fields
BrowserManager_start(failing_at) ==
    LET reached == IF failing_at = "none" THEN Len(StartSteps) + 1
                   ELSE CHOOSE i \in 1..Len(StartSteps) :
                            StartSteps[i] = failing_at
    IN [raised |-> failing_at # "none",
        resources |-> {StartSteps[i] : i \in 1..(reached - 1)}
                          \ {"page"}]

\* the awaits of BrowserManager.close, in order
CloseSteps == <<"context", "browser", "playwright">>

\* BrowserManager.close: each field that is set is closed in turn; the step
\* that raises ends the call and leaves the later ones open
BrowserManager_close(resources, failing_at) ==
    LET held == SelectSeq(CloseSteps, LAMBDA r : r \in resources)
        reached == IF failing_at \in resources
                   THEN CHOOSE i \in 1..Len(held) : held[i] = failing_at
                   ELSE Len(held) + 1
    IN [raised |-> failing_at \in resources,
        resources |-> {held[i] : i \in (reached + 1)..Len(held)}
                          \cup (IF failing_at \in resources
                                THEN {failing_at} ELSE {})]

\* a manager that goes out of scope with its browser launched leaves that
\* browser open
leaves_browser_open(resources) == "browser" \in resources

\* the coroutine raised on this attempt: tenacity calls it again while the
\* budget lasts, else the exception leaves the coroutine
after_failure(b, left) ==
    LET abandoned == b.abandoned + (IF leaves_browser_open(left) THEN 1 ELSE 0)
    IN IF b.attempt < browser_attempts(b.handler)
       THEN [b EXCEPT !.pc = "start", !.attempt = @ + 1, !.resources = {},
                      !.failed = FALSE, !.abandoned = abandoned]
       ELSE [b EXCEPT !.pc = "raised", !.resources = {}, !.failed = FALSE,
                      !.abandoned = abandoned]

\* the coroutine returned
after_success(b, left) ==
    [b EXCEPT !.pc = "returned", !.resources = {}, !.failed = FALSE,
              !.abandoned = @ + (IF leaves_browser_open(left) THEN 1 ELSE 0)]

\* the browsers of the engine that are open
open_browsers(b) ==
    b.abandoned + (IF leaves_browser_open(b.resources) THEN 1 ELSE 0)

BrowserInit ==
    /\ session = create_project("u0")
    /\ disk = session
    /\ wide_event = <<>>
    /\ opts = [ci_mode |-> FALSE, wizard_mode |-> TRUE,
               interactive_mode |-> FALSE]
    /\ pc = "browser"
    /\ call = NewCall(0, disk)
    /\ loop = LoopIdle
    /\ trans = NoNote
    /\ files = NoFiles
    /\ scan = ScanIdle
    /\ scraper = ScraperIdle
    /\ tester = TesterIdle
    /\ browser = [BrowserIdle EXCEPT !.pc = "between"]
    /\ client = ClientIdle
    /\ agent = AgentIdle

BrowserStep(b) ==
    /\ browser' = b
    /\ UNCHANGED <<session, disk, wide_event, opts, pc, call, loop, trans,
                   files, scan, scraper, tester, client, agent>>

\* a handler calls asyncio.run on its coroutine
browser_handler_begins ==
    /\ browser.pc \in {"between", "returned", "raised"}
    /\ browser.handled < MaxHandlers
    /\ \E handler \in BrowserHandlers :
           BrowserStep([browser EXCEPT !.pc = "start", !.handler = handler,
                                       !.attempt = 1, !.handled = @ + 1])

\* browser = BrowserManager(...); await browser.start(), before the try
browser_start ==
    /\ browser.pc = "start"
    /\ \E failing_at \in {"none"} \cup {StartSteps[i] : i \in 1..4} :
           LET started == BrowserManager_start(failing_at)
           IN IF started.raised
              THEN BrowserStep(after_failure(browser, started.resources))
              ELSE BrowserStep([browser EXCEPT
                                    !.pc = "try",
                                    !.resources = started.resources])

\* the body of the try: navigation, scan, capture
browser_work ==
    /\ browser.pc = "try"
    /\ \E raises \in BOOLEAN :
           BrowserStep([browser EXCEPT !.pc = "finally", !.failed = raises])

\* finally: await browser.close()
browser_close ==
    /\ browser.pc = "finally"
    /\ \E failing_at \in {"none"} \cup {CloseSteps[i] : i \in 1..3} :
           LET closed == BrowserManager_close(browser.resources, failing_at)
           IN IF closed.raised \/ browser.failed
              THEN BrowserStep(after_failure(browser, closed.resources))
              ELSE BrowserStep(after_success(browser, closed.resources))

BrowserNext ==
    \/ browser_handler_begins
    \/ browser_start
    \/ browser_work
    \/ browser_close

BrowserSpec == BrowserInit /\ [][BrowserNext]_vars

(***************************************************************************)
(* LLMClient.call (llm/client.py).  A text is a sequence of tokens; the    *)
(* record client.requests lists the provider requests of the call in       *)
(* progress with the mode of the frame that made each and its answer.      *)
(***************************************************************************)
\* a call makes no more provider requests than this in the model
MaxRequests == 3

Providers == {"openai", "openrouter", "local", "anthropic"}

\* what chat.completions.create raises: the exception's class name and the
\* fragments of its message the handler looks for
ProviderErrors ==
    {[type |-> "AuthenticationError", msg |-> {"401"}],
     [type |-> "AuthenticationError", msg |-> {"400", "response_format"}],
     [type |-> "BadRequestError", msg |-> {"400", "response_format"}],
     [type |-> "BadRequestError", msg |-> {"context_length"}],
     [type |-> "APIStatusError", msg |-> {"json_object"}],
     [type |-> "APIStatusError", msg |-> {"400"}],
     [type |-> "RateLimitError", msg |-> {"429"}],
     [type |-> "APIConnectionError", msg |-> {}]}

NoError == [type |-> None, msg |-> {}]

\* response.choices[0].message.content: nothing, prose, or a JSON object
Contents == {<<>>, <<"Hello">>, <<"{", "\"a\"", ":", "1", "}">>}

ProviderAnswers ==
    {[kind |-> "reply", content |-> c, error |-> NoError] : c \in Contents}
        \cup {[kind |-> "error", content |-> <<>>, error |-> e] :
                  e \in ProviderErrors}

\* use_json_mode = json_mode and self.provider in [openai, openrouter, local]
use_json_mode(json_mode, provider) ==
    json_mode /\ provider \in {"openai", "openrouter", "local"}

is_bad_request(e) == e.type = "BadRequestError" \/ "400" \in e.msg
is_json_mode_error(e) == "response_format" \in e.msg \/ "json_object" \in e.msg

\* a handler that re-calls whatever the mode of the call that failed
on_error_in_any_mode(e, json_mode) ==
    IF e.type = "AuthenticationError" THEN "raise"
    ELSE IF is_bad_request(e) \/ is_json_mode_error(e) THEN "retry"
    ELSE "raise"

\* the except branch of call: re-call in plain text, or re-raise
on_error(e, json_mode) ==
    IF e.type = "AuthenticationError" THEN "raise"
    ELSE IF (is_bad_request(e) \/ is_json_mode_error(e)) /\ json_mode
         THEN "retry"
    ELSE "raise"

CallReturned(content) == <<[how |-> "returned", content |-> content,
                        error |-> NoError]>>
CallRaised(e) == <<[how |-> "raised", content |-> <<>>, error |-> e]>>

ClientInit ==
    /\ session = create_project("u0")
    /\ disk = session
    /\ wide_event = <<>>
    /\ opts = [ci_mode |-> FALSE, wizard_mode |-> TRUE,
               interactive_mode |-> FALSE]
    /\ pc = "client"
    /\ call = NewCall(0, disk)
    /\ loop = LoopIdle
    /\ trans = NoNote
    /\ files = NoFiles
    /\ scan = ScanIdle
    /\ scraper = ScraperIdle
    /\ tester = TesterIdle
    /\ browser = BrowserIdle
    /\ client = ClientIdle
    /\ agent = AgentIdle

ClientStep(c) ==
    /\ client' = c
    /\ UNCHANGED <<session, disk, wide_event, opts, pc, call, loop, trans,
                   files, scan, scraper, tester, browser, agent>>

\* an agent calls client.call(system_prompt, user_prompt, json_mode) on a
\* client whose _setup_client did or did not build self.client
client_call ==
    /\ pc = "client"
    /\ client.pc \in {"idle", "done"}
    /\ \E provider \in Providers, ready, json_mode \in BOOLEAN :
           LET c == [ClientIdle EXCEPT !.provider = provider,
                                       !.json_mode = json_mode,
                                       !.mode = json_mode]
           IN IF ~ready
              THEN ClientStep([c EXCEPT
                       !.pc = "done",
                       !.result = CallRaised([type |-> "RuntimeError",
                                          msg |-> {}])])
              ELSE ClientStep([c EXCEPT !.pc = "create"])

\* self.client.chat.completions.create(**kwargs) and what call does with
\* its answer: return the content, re-raise, or call itself in plain text
client_create ==
    /\ pc = "client"
    /\ client.pc = "create"
    /\ Len(client.requests) < MaxRequests
    /\ \E answer \in ProviderAnswers :
           LET request == [response_format |->
                               use_json_mode(client.mode, client.provider),
                           json_mode |-> client.mode,
                           answer |-> answer]
               c == [client EXCEPT !.requests = Append(@, request)]
           IN IF answer.kind = "reply"
              THEN ClientStep([c EXCEPT
                       !.pc = "done",
                       !.result =
                           IF answer.content = <<>>
                           THEN CallReturned(IF client.mode
                                         THEN <<"{", "}">> ELSE <<>>)
                           ELSE CallReturned(answer.content)])
              ELSE IF on_error(answer.error, client.mode) = "retry"
                   THEN ClientStep([c EXCEPT !.mode = FALSE])
                   ELSE ClientStep([c EXCEPT
                            !.pc = "done",
                            !.result = CallRaised(answer.error)])

(***************************************************************************)
(* LLMClient.parse_json.  json.loads is a parser over the tokens of a      *)
(* text: braces, brackets, colon, comma, string and number literals and    *)
(* white space; it yields the parsed value, or nothing where Python's      *)
(* raises JSONDecodeError.  A parsed value is its tokens without the       *)
(* white space.  The token "<fence>" is a line of three backquotes.        *)
(***************************************************************************)
Whitespace == {" ", "\n"}
Literals == {"1", "\"a\"", "\"b\""}
Strings == {"\"a\"", "\"b\""}

RECURSIVE skip_ws(_, _)
skip_ws(t, i) ==
    IF i <= Len(t) /\ t[i] \in Whitespace THEN skip_ws(t, i + 1) ELSE i

NotJson == [ok |-> FALSE, next |-> 0, repr |-> <<>>]
Json(next, repr) == [ok |-> TRUE, next |-> next, repr |-> repr]

at(t, i, token) == i <= Len(t) /\ t[i] = token

RECURSIVE parse_value(_, _)
RECURSIVE parse_members(_, _)
RECURSIVE parse_elements(_, _)

\* "key": value, then a comma and more members, or the closing brace
parse_members(t, i) ==
    IF ~(i <= Len(t) /\ t[i] \in Strings) THEN NotJson
    ELSE LET colon == skip_ws(t, i + 1)
         IN IF ~at(t, colon, ":") THEN NotJson
            ELSE LET v == parse_value(t, skip_ws(t, colon + 1))
                 IN IF ~v.ok THEN NotJson
                    ELSE LET j == skip_ws(t, v.next)
                             head == <<t[i], ":">> \o v.repr
                         IN IF at(t, j, "}")
                            THEN Json(j + 1, head \o <<"}">>)
                            ELSE IF at(t, j, ",")
                            THEN LET rest == parse_members(t, skip_ws(t, j + 1))
                                 IN IF rest.ok
                                    THEN Json(rest.next,
                                              head \o <<",">> \o rest.repr)
                                    ELSE NotJson
                            ELSE NotJson

\* value, then a comma and more elements, or the closing bracket
parse_elements(t, i) ==
    LET v == parse_value(t, i)
    IN IF ~v.ok THEN NotJson
       ELSE LET j == skip_ws(t, v.next)
            IN IF at(t, j, "]") THEN Json(j + 1, v.repr \o <<"]">>)
               ELSE IF at(t, j, ",")
               THEN LET rest == parse_elements(t, skip_ws(t, j + 1))
                    IN IF rest.ok
                       THEN Json(rest.next, v.repr \o <<",">> \o rest.repr)
                       ELSE NotJson
               ELSE NotJson

parse_value(t, i) ==
    IF i > Len(t) THEN NotJson
    ELSE IF t[i] \in Literals THEN Json(i + 1, <<t[i]>>)
    ELSE IF t[i] = "{"
    THEN LET j == skip_ws(t, i + 1)
         IN IF at(t, j, "}") THEN Json(j + 1, <<"{", "}">>)
            ELSE LET m == parse_members(t, j)
                 IN IF m.ok THEN Json(m.next, <<"{">> \o m.repr) ELSE NotJson
    ELSE IF t[i] = "["
    THEN LET j == skip_ws(t, i + 1)
         IN IF at(t, j, "]") THEN Json(j + 1, <<"[", "]">>)
            ELSE LET m == parse_elements(t, j)
                 IN IF m.ok THEN Json(m.next, <<"[">> \o m.repr) ELSE NotJson
    ELSE NotJson

type_of(repr) ==
    IF repr[1] = "{" THEN "dict"
    ELSE IF repr[1] = "[" THEN "list"
    ELSE IF repr[1] \in Strings THEN "str" ELSE "int"

PyValue(repr) == [type |-> type_of(repr), repr |-> repr]

\* json.loads: the value of the whole text, Absent for JSONDecodeError
json_loads(t) ==
    LET v == parse_value(t, skip_ws(t, 1))
    IN IF v.ok /\ skip_ws(t, v.next) > Len(t) THEN <<PyValue(v.repr)>>
       ELSE Absent

\* str.strip, str.find and str.rfind on the tokens of a text
RECURSIVE strip_right(_)
strip_right(t) ==
    IF t # <<>> /\ t[Len(t)] \in Whitespace
    THEN strip_right(SubSeq(t, 1, Len(t) - 1)) ELSE t

RECURSIVE strip_left(_)
strip_left(t) ==
    IF t # <<>> /\ t[1] \in Whitespace THEN strip_left(Tail(t)) ELSE t

strip_text(t) == strip_left(strip_right(t))

Occurrences(t, token) == {i \in 1..Len(t) : t[i] = token}
find(t, token) ==
    IF Occurrences(t, token) = {} THEN 0
    ELSE CHOOSE i \in Occurrences(t, token) :
             \A j \in Occurrences(t, token) : i <= j
rfind(t, token) ==
    IF Occurrences(t, token) = {} THEN 0
    ELSE CHOOSE i \in Occurrences(t, token) :
             \A j \in Occurrences(t, token) : j <= i

\* re.search for a fence, an optional "json", white space, the shortest
\* text up to the next fence: group 1 of the leftmost match, Absent where
\* the text has no pair of fences
fence_match(t) ==
    LET fences == Occurrences(t, "<fence>")
    IN IF Cardinality(fences) < 2 THEN Absent
       ELSE LET open == find(t, "<fence>")
                after == IF at(t, open + 1, "json") THEN open + 2
                         ELSE open + 1
                from == skip_ws(t, after)
                close == CHOOSE i \in fences :
                             /\ i >= from
                             /\ \A j \in fences : j >= from => i <= j
            IN <<SubSeq(t, from, close - 1)>>

EmptyDict == [type |-> "dict", repr |-> <<"{", "}">>]

\* what parse_json is given: a text, or a value of another type
PyStr(t) == [type |-> "str", truthy |-> t # <<>>, text |-> t]
NotStr(type, is_true) ==
    [type |-> type, truthy |-> is_true, text |-> <<>>]

\* steps 3 to 5 of parse_json on the cleaned text
isolate_and_load(cleaned) ==
    LET start == find(cleaned, "{")
        end == rfind(cleaned, "}")
        candidate == IF start # 0 /\ end # 0
                     THEN json_loads(SubSeq(cleaned, start, end))
                     ELSE Absent
    IN IF candidate # Absent THEN candidate[1]
       ELSE IF json_loads(cleaned) # Absent THEN json_loads(cleaned)[1]
       ELSE EmptyDict

\* parse_json without the isolation of the first { to the last }
parse_json_whole(content) ==
    IF ~content.truthy \/ content.type # "str" THEN EmptyDict
    ELSE LET stripped == strip_text(content.text)
             cleaned == IF fence_match(stripped) # Absent
                        THEN strip_text(fence_match(stripped)[1])
                        ELSE stripped
         IN IF json_loads(cleaned) # Absent THEN json_loads(cleaned)[1]
            ELSE EmptyDict

parse_json(content) ==
    IF ~content.truthy \/ content.type # "str" THEN EmptyDict
    ELSE LET stripped == strip_text(content.text)
             cleaned == IF fence_match(stripped) # Absent
                        THEN strip_text(fence_match(stripped)[1])
                        ELSE stripped
         IN isolate_and_load(cleaned)

\* JSON objects a model may answer with
Objects ==
    {<<"{", "}">>,
     <<"{", "\"a\"", ":", "1", "}">>,
     <<"{", " ", "\"a\"", ":", " ", "1", ",", "\"b\"", ":", "[", "1", ",",
       " ", "\"a\"", "]", "\n", "}">>,
     <<"{", "\"a\"", ":", "{", "\"b\"", ":", "1", "}", "}">>}

\* prose without and with braces of its own
Prose == {<<"Here", " ", "it", " ", "is", ":", " ">>,
          <<" ", "Hope", " ", "this", " ", "helps">>}
BracedProse == {<<"Use", " ", "{", "x", "}", ":", " ">>,
                <<" ", "see", " ", "{", "docs", "}">>}

Alone(o) == {o, <<" ", "\n">> \o o \o <<"\n">>}
Fenced(o) ==
    {<<"<fence>", "json", "\n">> \o o \o <<"\n", "<fence>">>,
     <<"<fence>", "JSON">> \o o \o <<"<fence>">>,
     <<"Here", ":", "\n", "<fence>", "json", "\n">> \o o
         \o <<"\n", "<fence>", "\n", "Done">>}
InProse(o) ==
    {before \o o \o after : before \in Prose \cup {<<>>},
                            after \in Prose \cup {<<>>}} \ {o}
InBracedProse(o) ==
    {before \o o : before \in BracedProse}
        \cup {o \o after : after \in BracedProse}

\* texts that hold no JSON value: cut short, unbalanced, not JSON at all
\* (the token "a" is a key that is not in double quotes)
Unparseable ==
    {SubSeq(o, 1, Len(o) - 1) : o \in Objects}
        \cup {<<"}", "{">>, <<"{", "\"a\"", "}">>, <<"{", "\"a\"", ":", "}">>,
              <<"Hello">>, <<"{", "a", ":", "1", "}">>,
              <<"<fence>", "json", "\n", "{", "a", ":", "1", "}", "<fence>">>,
              <<"{", "\"a\"", ":", "1", "}", "{", "}">>}

Blank == {<<>>, <<" ">>, <<" ", "\n", " ">>}

NonStrings == {NotStr("NoneType", FALSE), NotStr("int", FALSE),
               NotStr("int", TRUE), NotStr("list", TRUE),
               NotStr("dict", TRUE)}

ParseCases == {"alone", "fenced", "prose", "braced_prose", "unparseable",
               "blank", "non_string", "reply"}

\* the inputs of a case, each with the object it was built around
ParseInputs(case) ==
    CASE case = "alone" ->
             {[content |-> PyStr(t), object |-> o] :
                  <<t, o>> \in {<<t, o>> \in (UNION {Alone(o) : o \in Objects})
                                            \X Objects : t \in Alone(o)}}
      [] case = "fenced" ->
             {[content |-> PyStr(t), object |-> o] :
                  <<t, o>> \in {<<t, o>> \in (UNION {Fenced(o) : o \in Objects})
                                            \X Objects : t \in Fenced(o)}}
      [] case = "prose" ->
             {[content |-> PyStr(t), object |-> o] :
                  <<t, o>> \in {<<t, o>> \in (UNION {InProse(o) : o \in Objects})
                                            \X Objects : t \in InProse(o)}}
      [] case = "braced_prose" ->
             {[content |-> PyStr(t), object |-> o] :
                  <<t, o>> \in {<<t, o>> \in
                                    (UNION {InBracedProse(o) : o \in Objects})
                                        \X Objects : t \in InBracedProse(o)}}
      [] case = "unparseable" ->
             {[content |-> PyStr(t), object |-> <<>>] : t \in Unparseable}
      [] case = "blank" ->
             {[content |-> PyStr(t), object |-> <<>>] : t \in Blank}
      [] case = "non_string" ->
             {[content |-> v, object |-> <<>>] : v \in NonStrings}
      [] OTHER -> {}

\* an agent hands a text to client.parse_json: the text call returned, or
\* any other
client_parse_json ==
    /\ pc = "client"
    /\ client.pc \in {"idle", "done"}
    /\ client.parsed = Absent
    /\ \E case \in ParseCases :
         \E input \in
                IF case = "reply"
                THEN IF client.pc = "done" /\ client.result[1].how = "returned"
                     THEN {[content |-> PyStr(client.result[1].content),
                            object |-> <<>>]}
                     ELSE {}
                ELSE ParseInputs(case) :
             ClientStep([client EXCEPT
                 !.parsed = <<[case |-> case, content |-> input.content,
                               object |-> input.object,
                               value |-> parse_json(input.content)]>>])

ClientNext ==
    \/ client_call
    \/ client_create
    \/ client_parse_json

ClientSpec == ClientInit /\ [][ClientNext]_vars


(***************************************************************************)
(* The agents' code extraction (llm/codegen.py, llm/repair.py).  A reply   *)
(* is a sequence of tokens: words, ".", "\n", " " and "<fence>"; words     *)
(* next to each other are separated by blanks.  Both agents carry the same *)
(* _extract_python_code.                                                   *)
(***************************************************************************)
Agents == {"CodeGenerator", "RepairAgent"}

\* re.sub(pattern, replacement, code) for a pattern that is a run of words
RECURSIVE re_sub(_, _, _)
re_sub(pattern, replacement, src) ==
    IF Len(src) < Len(pattern) THEN src
    ELSE IF SubSeq(src, 1, Len(pattern)) = pattern
    THEN replacement
             \o re_sub(pattern, replacement,
                       SubSeq(src, Len(pattern) + 1, Len(src)))
    ELSE <<src[1]>> \o re_sub(pattern, replacement, Tail(src))

playwright_async_api == <<"playwright", ".", "async_api">>
import_async_playwright ==
    <<"from">> \o playwright_async_api \o <<"import", "async_playwright">>

\* the post-extraction fixes, in the order of the code
fix_hallucinations(src) ==
    LET from_fixed == re_sub(<<"from", "async_playwright">>,
                             <<"from">> \o playwright_async_api, src)
        import_fixed == re_sub(<<"import", "async_playwright">>,
                               import_async_playwright, from_fixed)
        mis_import_fixed ==
            re_sub(import_async_playwright \o <<".", "async_api">>,
                   import_async_playwright, import_fixed)
    IN re_sub(<<"async_playwright", ".", "async_api">>,
              playwright_async_api, mis_import_fixed)

\* re.findall of a fence, an optional "python", white space and the
\* shortest text up to the next fence: the groups, left to right
RECURSIVE fence_blocks(_)
fence_blocks(t) ==
    IF Cardinality(Occurrences(t, "<fence>")) < 2 THEN <<>>
    ELSE LET open == find(t, "<fence>")
             after == IF at(t, open + 1, "python") THEN open + 2
                      ELSE open + 1
             from == skip_ws(t, after)
             close == CHOOSE i \in Occurrences(t, "<fence>") :
                          /\ i >= from
                          /\ \A j \in Occurrences(t, "<fence>") :
                                 j >= from => i <= j
         IN <<SubSeq(t, from, close - 1)>>
                \o fence_blocks(SubSeq(t, close + 1, Len(t)))

\* max(matches, key=len): the first of the longest (length in tokens)
longest(matches) ==
    matches[CHOOSE i \in 1..Len(matches) :
                /\ \A j \in 1..Len(matches) :
                       Len(matches[j]) <= Len(matches[i])
                /\ \A j \in 1..(i - 1) : Len(matches[j]) < Len(matches[i])]

RECURSIVE skip_blanks(_, _)
skip_blanks(t, i) ==
    IF i <= Len(t) /\ t[i] = " " THEN skip_blanks(t, i + 1) ELSE i

\* line.strip().startswith(('import ', 'from ', 'class ', 'def ',
\* 'async def ', '#!')) for the line that begins at token i
starts_code(t, i) ==
    LET j == skip_blanks(t, i)
    IN \/ j < Len(t) /\ t[j] \in {"import", "from", "class", "def"}
             /\ t[j + 1] # "\n"
       \/ j + 1 < Len(t) /\ t[j] = "async" /\ t[j + 1] = "def"
             /\ t[j + 2] # "\n"
       \/ j <= Len(t) /\ t[j] = "#!"

\* the first token of the first line that starts code, 1 where none does
code_start(t) ==
    LET starts == {i \in 1..Len(t) :
                       /\ i = 1 \/ t[i - 1] = "\n"
                       /\ starts_code(t, i)}
    IN IF starts = {} THEN 1
       ELSE CHOOSE i \in starts : \A j \in starts : i <= j

\* _extract_python_code: which path was taken, the text it isolated, and
\* the code it returns
extract_python_code(text) ==
    LET matches == fence_blocks(text)
    IN IF matches # <<>>
       THEN [path |-> "fence",
             extracted |-> strip_text(longest(matches)),
             code |-> strip_text(longest(matches))]
       ELSE LET joined ==
                    strip_text(SubSeq(text, code_start(text), Len(text)))
            IN [path |-> "lines", extracted |-> joined,
                code |-> fix_hallucinations(joined)]

\* the scripts a model answers with: hallucinated imports and sound ones
Scripts ==
    {<<"import", "async_playwright", "\n", "async", "def", "main">>,
     <<"from", "async_playwright", "import", "async_playwright", "\n",
       "def", "main">>,
     <<"from", "async_playwright", ".", "async_api", "import",
       "async_playwright", "\n", "class", "Scraper">>,
     import_async_playwright \o <<".", "async_api", "\n", "def", "main">>,
     <<"import", "asyncio", "\n", "async", "def", "main">>,
     <<"#!", "\n", "import", "json", "\n", "def", "main">>}

Preamble == <<"Here", "is", "the", "script", ":", "\n">>

\* the replies built around a script
Replies(script) ==
    {script,
     Preamble \o <<" ", " ">> \o script \o <<"\n">>,
     <<"<fence>", "python", "\n">> \o script \o <<"\n", "<fence>">>,
     <<"<fence>", "\n">> \o script \o <<"\n", "<fence>">>,
     Preamble \o <<"<fence>", "python", "\n">> \o script
         \o <<"\n", "<fence>", "\n", "Run", "it", ".">>,
     <<"<fence>", "pip", "install", "<fence>", "\n", "<fence>", "python",
       "\n">> \o script \o <<"<fence>">>,
     <<"<fence>", "python", "\n">> \o script}

AgentInit ==
    /\ session = create_project("u0")
    /\ disk = session
    /\ wide_event = <<>>
    /\ opts = [ci_mode |-> FALSE, wizard_mode |-> TRUE,
               interactive_mode |-> FALSE]
    /\ pc = "agent"
    /\ call = NewCall(0, disk)
    /\ loop = LoopIdle
    /\ trans = NoNote
    /\ files = NoFiles
    /\ scan = ScanIdle
    /\ scraper = ScraperIdle
    /\ tester = TesterIdle
    /\ browser = BrowserIdle
    /\ client = ClientIdle
    /\ agent = AgentIdle

AgentStep(a) ==
    /\ agent' = a
    /\ UNCHANGED <<session, disk, wide_event, opts, pc, call, loop, trans,
                   files, scan, scraper, tester, browser, client>>

\* CodeGenerator.generate or RepairAgent.repair: client.call in plain-text
\* mode returned the model's reply, which is saved under llm_logs
agent_call ==
    /\ pc = "agent"
    /\ agent.pc \in {"idle", "written"}
    /\ \E who \in Agents, script \in Scripts :
         \E reply \in Replies(script) :
             AgentStep([AgentIdle EXCEPT !.pc = "reply", !.who = who,
                                         !.response = reply])

\* code = self._extract_python_code(code)
agent_extract ==
    /\ pc = "agent"
    /\ agent.pc = "reply"
    /\ LET e == extract_python_code(agent.response)
       IN AgentStep([agent EXCEPT !.pc = "extracted", !.path = e.path,
                                  !.extracted = e.extracted,
                                  !.code = e.code])

\* the code is written to generated_scraper.py
agent_write ==
    /\ pc = "agent"
    /\ agent.pc = "extracted"
    /\ AgentStep([agent EXCEPT !.pc = "written",
                               !.written = <<agent.code>>])

AgentNext ==
    \/ agent_call
    \/ agent_extract
    \/ agent_write

AgentSpec == AgentInit /\ [][AgentNext]_vars

(***************************************************************************)
(* The workflow's transitions                                              *)
(***************************************************************************)
\* the transitions the state machine of the specification permits
PermittedListed(from) ==
    CASE from = "INIT" -> {"RECON", "GUIDED_ACCESS", "FAILED"}
      [] from = "GUIDED_ACCESS" -> {"RECON"}
      [] from = "RECON" -> {"LLM_ANALYSIS", "INTERACTIVE_SOLVE", "FAILED"}
      [] from = "INTERACTIVE_SOLVE" -> {"LLM_ANALYSIS", "FAILED"}
      [] from = "LLM_ANALYSIS" -> {"USER_CONFIG", "FAILED"}
      [] from = "USER_CONFIG" -> {"CODEGEN"}
      [] from = "CODEGEN" -> {"TEST"}
      [] from = "TEST" -> {"APPROVED", "REPAIR", "CODEGEN", "USER_CONFIG",
                           "GUIDED_ACCESS", "DONE", "FAILED"}
      [] from = "REPAIR" -> {"APPROVED", "CODEGEN", "USER_CONFIG", "DONE",
                             "FAILED"}
      [] from = "APPROVED" -> {"DONE", "FAILED"}
      [] OTHER -> {}

\* the same with the two transitions the handlers make besides
PermittedAmended(from) ==
    CASE from = "USER_CONFIG" -> PermittedListed(from) \cup {"RECON"}
      [] from = "REPAIR" -> PermittedListed(from) \cup {"TEST"}
      [] OTHER -> PermittedListed(from)

\* a handler changed the state out of one of the workflow's states
HandlerChangedState ==
    /\ trans.by = "handler"
    /\ trans.from \in WorkflowStates
    /\ trans.to # trans.from

RunEnded == pc \in {"returned", "raised"}

\* C2 as stated: every call of run that returns or raises wrote exactly one
\* wide_event.json, and the final_state it records equals the state stored
\* in session.json at that moment (normal end, handler exception,
\* KeyboardInterrupt, state without a handler).
C2_WideEventMatchesSessionFile ==
    RunEnded =>
        /\ call.writes = 1
        /\ wide_event # <<>>
        /\ wide_event[1].final_state = disk.state

\* Ctrl-C during the INIT handler of a fresh project: run returned, the Wide
\* Event says FAILED, session.json still says INIT
C2_Witness ==
    /\ pc = "returned"
    /\ trans.by = "interrupt"
    /\ call.start.state = "INIT"
    /\ call.writes = 1
    /\ wide_event = <<[success |-> FALSE, error |-> None,
                       final_state |-> "FAILED"]>>
    /\ disk.state = "INIT"

C4_InterruptPersistsFailed ==
    trans.by = "interrupt" =>
        /\ pc \in {"finally", "returned"}
        /\ session.state = "FAILED"
        /\ disk.state = "FAILED"
        /\ pc = "returned" => call.writes = 1

\* Ctrl-C during the TEST handler: the session in memory is FAILED, run
\* returned normally, and session.json keeps TEST
C4_Witness ==
    /\ trans.by = "interrupt"
    /\ trans.from = "TEST"
    /\ pc = "returned"
    /\ session.state = "FAILED"
    /\ disk.state = "TEST"
    /\ wide_event # <<>>
    /\ wide_event[1].final_state = "FAILED"

\* run was called on a project whose session.json already said DONE or
\* FAILED, and that call has ended
RerunOfTerminalEnded ==
    /\ RunEnded
    /\ call.runs >= 1
    /\ call.start.state \in {"DONE", "FAILED"}

\* C5 as stated: run on a project already DONE or FAILED is a no-op: no
\* handler runs, session.json is unchanged, no new wide_event.json is written.
C5_RerunWritesNothing ==
    RerunOfTerminalEnded =>
        /\ ~call.handled
        /\ disk = call.start
        /\ call.writes = 0

\* a run that failed with an error text is run again: no handler runs and
\* session.json is unchanged, but the finally clause of run() has replaced
\* wide_event.json by a new document without the error
C5_Witness ==
    /\ RerunOfTerminalEnded
    /\ call.runs = 2
    /\ call.start.state = "FAILED"
    /\ ~call.handled
    /\ disk = call.start
    /\ call.writes = 1
    /\ wide_event = <<[success |-> FALSE, error |-> None,
                       final_state |-> "FAILED"]>>

\* between two handlers: the last handler returned and was saved
BetweenHandlers ==
    /\ pc = "loop"
    /\ loop.pc = "idle"
    /\ trans.by = "handler"

C7_RepairLoopBudget ==
    /\ Tests(loop) <= loop.max + 1
    /\ Repairs(loop) <= loop.max
    /\ (loop.max = 0 /\ loop.pc = "done") =>
           /\ Tests(loop) = 1
           /\ Repairs(loop) = 0
           /\ loop.result = (loop.log[1] = "test_ok")

C7_Witness ==
    /\ loop.pc = "done"
    /\ loop.max = 2
    /\ Tests(loop) = 3
    /\ Repairs(loop) = 2

\* C8: RepairLoop.run returns true exactly when some test_runner invocation
\* of that call succeeded; a success is the last thing the call does (no
\* repair follows it); with every test failing it returns false.
C8_RepairLoopResult ==
    /\ \A i \in 1..Len(loop.log) :
           loop.log[i] = "test_ok" =>
               /\ i = Len(loop.log)
               /\ loop.pc = "done"
               /\ loop.result
    /\ loop.pc = "done" =>
           (loop.result <=> \E i \in 1..Len(loop.log) : loop.log[i] = "test_ok")

C8_Witness ==
    /\ loop.pc = "done"
    /\ loop.result
    /\ loop.log = <<"test_failed", "repair", "test_ok">>

\* C9: if the Repair agent raises, RepairLoop.run returns false at once: no
\* further test, no further repair, and the call returns (the exception
\* does not leave it).
C9_RepairAgentFailureEndsLoop ==
    \A i \in 1..Len(loop.log) :
        loop.log[i] = "repair_raised" =>
            /\ i = Len(loop.log)
            /\ loop.pc = "done"
            /\ ~loop.result

C9_Witness ==
    /\ loop.pc = "done"
    /\ loop.max = 2
    /\ loop.log = <<"test_failed", "repair", "test_failed", "repair_raised">>

(***************************************************************************)
(* Scenario S4: the operator flags columns after a passing test            *)
(***************************************************************************)
\* the TEST handler just returned with the operator's choice fix_columns
FlaggedAfterTest ==
    /\ trans.by = "handler"
    /\ trans.from = "TEST"
    /\ trans.action = "fix_columns"

\* the REPAIR handler that S4 entered has returned
FlaggedRepairDecided ==
    /\ trans.by = "handler"
    /\ trans.from = "REPAIR"
    /\ trans.flagged

\* TEST -> REPAIR, and RepairLoop.run is called with column_hints = C
S4_RepairCalledWithHints ==
    /\ FlaggedAfterTest =>
           /\ trans.to = "REPAIR"
           /\ trans.cols # Absent
           /\ loop.pc = "idle" => session.fix_columns = trans.cols
           /\ loop.pc # "idle" => (loop.flagged /\ loop.hints = trans.cols)
    /\ FlaggedRepairDecided => trans.hints # Absent

\* C10 as stated: in S4 the engine moves TEST -> REPAIR, RepairLoop.run is
\* called with column_hints = C, and the REPAIR handler then moves to
\* APPROVED if the loop returned true and to FAILED otherwise.
C10_S4ApprovedOrFailed ==
    /\ S4_RepairCalledWithHints
    /\ FlaggedRepairDecided =>
           trans.to = (IF trans.fixed THEN "APPROVED" ELSE "FAILED")

\* C10 amended: in S4 the engine moves TEST -> REPAIR and RepairLoop.run is
\* called with column_hints = C; the REPAIR handler then asks the operator:
\* after the loop returned true it moves to APPROVED (approved), FAILED
\* (columns flagged again), CODEGEN (regenerate) or DONE (any other answer),
\* and with no data to review to APPROVED or DONE by the approval prompt;
\* after it returned false it moves to USER_CONFIG (reconfigure), TEST
\* (manual edit) or FAILED (abort).
C10_S4OperatorDecides ==
    /\ S4_RepairCalledWithHints
    /\ FlaggedRepairDecided =>
           /\ trans.fixed =>
                  CASE trans.action = "approve" -> trans.to = "APPROVED"
                    [] trans.action = "fix_columns" -> trans.to = "FAILED"
                    [] trans.action = "retry" -> trans.to = "CODEGEN"
                    [] trans.action = "-" -> trans.to \in {"APPROVED", "DONE"}
                    [] OTHER -> trans.to = "DONE"
           /\ ~trans.fixed =>
                  CASE trans.action = "config" -> trans.to = "USER_CONFIG"
                    [] trans.action = "edit" -> trans.to = "TEST"
                    [] OTHER -> trans.to = "FAILED"

C10_Witness ==
    /\ FlaggedRepairDecided
    /\ trans.hints = <<{"price"}>>
    /\ trans.fixed
    /\ trans.to = "APPROVED"

(***************************************************************************)
(* The scan profile's scores                                               *)
(***************************************************************************)
\* scan() returned a profile that went through score synthesis
ScoredProfile ==
    /\ scan.pc = "returned"
    /\ scan.profile.scores # Absent

\* C11: in every profile scan() returns after score synthesis,
\* complexity_score >= hostility_score; and a hostility_score >= 40 comes
\* with access_recommendation "guided", complexity_score >= 40 and the
\* reason "Hostile Bot Defense Detected", whatever the signals.
C11_HostilityBoundsComplexity ==
    ScoredProfile =>
        LET s == scan.profile.scores[1]
        IN /\ s.complexity_score >= s.hostility_score
           /\ s.hostility_score >= 40 =>
                  /\ s.access_recommendation = "guided"
                  /\ s.complexity_score >= 40
                  /\ "Hostile Bot Defense Detected" \in s.complexity_reasons

C11_Witness ==
    /\ ScoredProfile
    /\ scan.page.found_cookies
    /\ ~scan.page.captcha
    /\ scan.page.scroll_grows
    /\ scan.profile.scores[1].hostility_score = 50
    /\ scan.profile.scores[1].complexity_score = 50
    /\ scan.profile.scores[1].access_recommendation = "guided"

\* C12: with a hostility_score (sign-in folded in) below 40 the
\* recommendation is the one computed from the base complexity score alone
\* and complexity_score is base complexity plus hostility_score; at exactly
\* 40 the recommendation is "guided".
C12_OverrideThreshold ==
    ScoredProfile =>
        LET s == scan.profile.scores[1]
            base == calculate_complexity_score(
                        behavioral_data(scan.profile.stages),
                        tech_is_spa(scan.profile.stages))
        IN /\ s.hostility_score < 40 =>
                  /\ s.access_recommendation = base.recommendation
                  /\ s.complexity_score = base.score + s.hostility_score
           /\ s.hostility_score = 40 => s.access_recommendation = "guided"

C12_Witness ==
    /\ ScoredProfile
    /\ scan.page.found_scripts
    /\ scan.profile.scores[1].hostility_score = 30
    /\ scan.profile.scores[1].complexity_score = 65
    /\ scan.profile.scores[1].access_recommendation = "automatic"

\* C13 as stated: once navigation has succeeded, whatever stages fail,
\* scan() does not raise: every failed stage has an error record and a null
\* field, every other stage has run, and the returned profile carries
\* complexity_score, hostility_score and access_recommendation.
C13_StageFailuresContained ==
    (scan.pc \in {"returned", "raised"} /\ scan.page.nav_ok) =>
        /\ scan.pc = "returned"
        /\ \A label \in scan.page.failing :
               /\ label \in scan.profile.errors
               /\ scan.profile.stages[label] = Absent
        /\ \A label \in Stages :
               scan.profile.stages[label] = Absent
                   <=> label \in scan.profile.errors
        /\ scan.profile.scores # Absent

\* the bot-defense stage alone fails: scan() raises
C13_Witness ==
    /\ scan.pc = "raised"
    /\ scan.page.nav_ok
    /\ scan.page.failing = {"bot_defense"}
    /\ scan.profile.stages["bot_defense"] = Absent
    /\ "bot_defense" \in scan.profile.errors

(***************************************************************************)
(* INIT: the stealth probe and the access mode                             *)
(***************************************************************************)
\* the INIT handler has just returned
InitHandled ==
    /\ trans.from = "INIT"
    /\ trans.by = "handler"

\* the site INIT was pointed at scans to a profile with hostility_score >= 40
HostileSite ==
    /\ trans.site # Absent
    /\ LET result == Scanner_scan(trans.site[1])
       IN /\ ~result.raised
          /\ result.profile.scores # Absent
          /\ result.profile.scores[1].hostility_score >= 40

\* C14 as stated: in INIT, when the site's scan profile has
\* hostility_score >= 40, the recorded access mode is "guided" and the next
\* state is GUIDED_ACCESS, in CI, wizard and expert mode alike.
C14_HostileAlwaysGuided ==
    (InitHandled /\ HostileSite /\ ~trans.probe_failed) =>
        /\ trans.mode = "guided"
        /\ trans.to = "GUIDED_ACCESS"

\* C14 amended: outside CI mode, when the probe returned a profile with
\* hostility_score >= 40, the access mode written to interaction.json is
\* "guided" and the next state is GUIDED_ACCESS whatever the operator would
\* choose; in CI mode INIT records no access mode and moves to RECON.
C14_HostileProbeForcesGuided ==
    InitHandled =>
        IF opts.ci_mode
        THEN /\ trans.mode = None
             /\ trans.to = "RECON"
        ELSE (/\ ~trans.probe_failed
              /\ trans.profile # Absent
              /\ trans.profile[1].hostility_score >= 40) =>
                 /\ trans.mode = "guided"
                 /\ "interaction" \in trans.wrote
                 /\ trans.to = "GUIDED_ACCESS"

\* expert mode, a sign-in wall that puts hostility exactly at 40
C14_Witness ==
    /\ InitHandled
    /\ ~opts.ci_mode
    /\ ~opts.wizard_mode
    /\ ~trans.probe_failed
    /\ trans.site = <<[QuietPage EXCEPT !.signin = {"auth_text"}]>>
    /\ trans.profile[1].hostility_score = 40
    /\ trans.mode = "guided"
    /\ trans.to = "GUIDED_ACCESS"

\* C15: when the probe failed on all three attempts INIT does not move to
\* FAILED: it goes on with recommendation "guided", complexity_score 100
\* and the reason "Probe failed", and in wizard mode the next state is
\* GUIDED_ACCESS.
C15_ProbeFailureFallsBackToGuided ==
    (InitHandled /\ trans.probe_failed) =>
        /\ trans.to \in {"GUIDED_ACCESS", "RECON"}
        /\ trans.profile =
               <<[access_recommendation |-> "guided", complexity_score |-> 100,
                  complexity_reasons |-> {"Probe failed"}]>>
        /\ opts.wizard_mode =>
               /\ trans.mode = "guided"
               /\ trans.to = "GUIDED_ACCESS"

\* wizard mode, a site on which scan() raised three times
C15_Witness ==
    /\ InitHandled
    /\ trans.probe_failed
    /\ opts.wizard_mode
    /\ trans.site = <<[QuietPage EXCEPT !.failing = {"bot_defense"}]>>
    /\ trans.to = "GUIDED_ACCESS"

\* C16 as stated: after a failed probe the fallback profile has been
\* written as scan_profile.json by the time INIT is left.
C16_FallbackProfilePersisted ==
    (InitHandled /\ trans.probe_failed) =>
        /\ "scan_profile" \in trans.wrote
        /\ files.scan_profile =
               <<[access_recommendation |-> "guided", complexity_score |-> 100,
                  complexity_reasons |-> {"Probe failed"}]>>

\* INIT left for GUIDED_ACCESS after a failed probe, interaction.json
\* written and no scan_profile.json
C16_Witness ==
    /\ InitHandled
    /\ trans.probe_failed
    /\ trans.to = "GUIDED_ACCESS"
    /\ disk.state = "GUIDED_ACCESS"
    /\ trans.wrote = {"interaction"}
    /\ files.scan_profile = Absent

(***************************************************************************)
(* The scan profile in the project directory                               *)
(***************************************************************************)
\* C17 as stated: when session.json holds RECON or a later state,
\* scan_profile.json exists and its complexity_score is at least its
\* hostility_score.
C17_LaterStatesHaveScanProfile ==
    disk.state \in {"RECON", "INTERACTIVE_SOLVE", "LLM_ANALYSIS",
                    "USER_CONFIG", "CODEGEN", "TEST", "REPAIR", "APPROVED",
                    "DONE"} =>
        /\ files.scan_profile # Absent
        /\ files.scan_profile[1].scores # Absent
        /\ files.scan_profile[1].scores[1].complexity_score
               >= files.scan_profile[1].scores[1].hostility_score

\* INIT has moved a fresh project to RECON: session.json says RECON and
\* there is no scan_profile.json
C17_Witness ==
    /\ InitHandled
    /\ trans.to = "RECON"
    /\ disk.state = "RECON"
    /\ files.scan_profile = Absent

C19_CiConfidenceGate ==
    (trans.by = "handler" /\ trans.from = "LLM_ANALYSIS" /\ opts.ci_mode) =>
        LET u == trans.understanding[1]
            low == \/ u.scraping_possible # <<TRUE>>
                   \/ u.confidence = Absent
                   \/ u.confidence[1] < 5
        IN /\ trans.to \in {"FAILED", "USER_CONFIG"}
           /\ low => trans.to = "FAILED"
           /\ trans.to = "USER_CONFIG" => ~low

\* CI mode, an unparseable reply
C19_Witness ==
    /\ trans.by = "handler"
    /\ trans.from = "LLM_ANALYSIS"
    /\ opts.ci_mode
    /\ trans.understanding =
           <<[scraping_possible |-> Absent, confidence |-> Absent]>>
    /\ trans.to = "FAILED"
    /\ disk.state = "FAILED"

\* a run has ended after LLM_ANALYSIS aborted in CI mode (S3) or after the
\* final run timed out (S5)
EndedOnS3OrS5 ==
    /\ pc = "returned"
    /\ trans.by = "handler"
    /\ trans.to = "FAILED"
    /\ \/ trans.from = "LLM_ANALYSIS" /\ trans.cause = "CI Mode Aborted"
       \/ trans.from = "APPROVED"
              /\ trans.cause = "Execution timed out (600s)."

\* C20 as stated: the Wide Event of such a run has success false,
\* final_state FAILED and an error text that is not null and names the
\* cause.
C20_FailureCauseInWideEvent ==
    EndedOnS3OrS5 =>
        /\ wide_event # <<>>
        /\ wide_event[1].success = FALSE
        /\ wide_event[1].final_state = "FAILED"
        /\ wide_event[1].error # None
        /\ wide_event[1].error = trans.cause

\* the final run timed out: the Wide Event says FAILED with a null error
C20_Witness ==
    /\ EndedOnS3OrS5
    /\ trans.from = "APPROVED"
    /\ wide_event =
           <<[success |-> FALSE, error |-> None, final_state |-> "FAILED"]>>

(***************************************************************************)
(* USER_CONFIG and CODEGEN                                                 *)
(***************************************************************************)
\* C21 as stated: in CI mode the USER_CONFIG handler returns without
\* raising and without waiting for the operator, having written
\* run_config.json with pagination first_page, format json and a
\* pagination_config, and moves to CODEGEN.
C21_CiUserConfigCompletes ==
    (trans.from = "USER_CONFIG" /\ opts.ci_mode) =>
        /\ trans.by = "handler"
        /\ ~trans.prompted
        /\ trans.to = "CODEGEN"
        /\ "run_config" \in trans.wrote
        /\ files.run_config # Absent
        /\ files.run_config[1].pagination = "first_page"
        /\ files.run_config[1].format = "json"

\* CI mode: USER_CONFIG raised UnboundLocalError, the run ended FAILED with
\* no run_config.json
C21_Witness ==
    /\ trans.from = "USER_CONFIG"
    /\ opts.ci_mode
    /\ trans.by = "guard"
    /\ pc = "raised"
    /\ call.error_msg = "UnboundLocalError"
    /\ disk.state = "FAILED"
    /\ files.run_config = Absent

\* C22 as stated: a CODEGEN handler execution that returns has written
\* generated_scraper.py and moved to TEST, and one that reaches the guard
\* does so only because the generation call failed on both attempts (or
\* the environment failed under it), never for another reason.
C22_CodegenReachesTestOrExhausts ==
    trans.from = "CODEGEN" =>
        \/ /\ trans.by = "handler"
           /\ trans.to = "TEST"
           /\ "generated_scraper" \in trans.wrote
        \/ /\ trans.by = "guard"
           /\ call.error_msg \in {"CodegenError", "RuntimeError"}
        \/ trans.by = "interrupt"

\* CODEGEN raised TypeError while constructing the CodeGenerator, before
\* any generation attempt: the run ended FAILED without generated_scraper.py
C22_Witness ==
    /\ trans.from = "CODEGEN"
    /\ trans.by = "guard"
    /\ pc = "raised"
    /\ call.error_msg = "TypeError"
    /\ trans.wrote = {}
    /\ disk.state = "FAILED"

\* the last handler of the run failed for a reason outside the program:
\* the site, the LLM or the generated script was judged unfit, the
\* environment failed, or the operator interrupted
FailedOutsideTheProgram ==
    \/ trans.by = "handler" /\ trans.to = "FAILED"
    \/ trans.by = "guard"
           /\ call.error_msg \in {"RuntimeError", "AttributeError", "CodegenError"}
    \/ trans.by \in {"interrupt", "unhandled"}

\* C23 as stated: a CI run of a fresh project that meets no failure of
\* site, LLM, script or environment walks INIT, RECON, LLM_ANALYSIS,
\* USER_CONFIG, CODEGEN, TEST, APPROVED to DONE, and scrape exits 0.
C23_CiGoldenPathEndsDone ==
    (/\ RunEnded
     /\ opts.ci_mode
     /\ call.start.state = "INIT"
     /\ ~FailedOutsideTheProgram) =>
        /\ session.state = "DONE"
        /\ exit_code(pc) = 0

\* a fresh CI run with a healthy site and a feasible, confident
\* Understanding ended in USER_CONFIG with UnboundLocalError: FAILED, exit 1
C23_Witness ==
    /\ RunEnded
    /\ opts.ci_mode
    /\ call.start.state = "INIT"
    /\ trans.from = "USER_CONFIG"
    /\ call.error_msg = "UnboundLocalError"
    /\ session.state = "FAILED"
    /\ exit_code(pc) = 1

\* C24 as stated, its two parts on one handler execution: in CI mode a
\* handler that returns has not waited for the operator, and has left the
\* state it was dispatched for, so that no state is handled twice in a row.
C24_CiHandlersNeverWaitNorStay ==
    (opts.ci_mode /\ trans.by = "handler") =>
        /\ ~trans.prompted
        /\ trans.to # trans.from

\* a fresh CI run whose health check reported blocked: INTERACTIVE_SOLVE
\* waited for the operator, the capture failed, and the run is back at the
\* top of the loop in INTERACTIVE_SOLVE
C24_Witness ==
    /\ opts.ci_mode
    /\ call.start.state = "INIT"
    /\ pc = "loop"
    /\ trans.by = "handler"
    /\ trans.from = "INTERACTIVE_SOLVE"
    /\ trans.to = "INTERACTIVE_SOLVE"
    /\ trans.prompted
    /\ session.state = "INTERACTIVE_SOLVE"

(***************************************************************************)
(* INTERACTIVE_SOLVE                                                       *)
(***************************************************************************)
\* C27 as stated: one execution of the INTERACTIVE_SOLVE handler leaves the
\* state, for LLM_ANALYSIS when the operator confirmed and the capture
\* succeeded, for FAILED otherwise.
C27_InteractiveSolveLeaves ==
    (trans.from = "INTERACTIVE_SOLVE" /\ trans.by = "handler") =>
        /\ trans.to \in {"LLM_ANALYSIS", "FAILED"}
        /\ trans.to = "LLM_ANALYSIS" <=> "cookies" \in trans.wrote

\* the operator confirmed, the capture wrote scan_profile.json and then
\* failed: the handler returned with the state still INTERACTIVE_SOLVE,
\* saved as such
C27_Witness ==
    /\ trans.from = "INTERACTIVE_SOLVE"
    /\ trans.by = "handler"
    /\ trans.to = "INTERACTIVE_SOLVE"
    /\ trans.wrote = {"scan_profile"}
    /\ pc = "loop"
    /\ session.state = "INTERACTIVE_SOLVE"
    /\ disk.state = "INTERACTIVE_SOLVE"

(***************************************************************************)
(* run_config.json                                                         *)
(***************************************************************************)
\* the states between USER_CONFIG and APPROVED, APPROVED included: none of
\* their handlers writes run_config.json
PastUserConfig == {"CODEGEN", "TEST", "REPAIR", "APPROVED"}

C26_HeadedAfterLogin ==
    session.login_performed =>
        /\ ~use_headless(session)
        /\ (trans.from = "USER_CONFIG" /\ "run_config" \in trans.wrote) =>
               files.run_config[1].browser_mode = "headed"

\* expert mode after a guided login: the operator answered "headless" to
\* the browser mode prompt and run_config.json says so
C26_Witness ==
    /\ session.login_performed
    /\ ~opts.wizard_mode
    /\ ~opts.ci_mode
    /\ trans.from = "USER_CONFIG"
    /\ trans.by = "handler"
    /\ "run_config" \in trans.wrote
    /\ files.run_config[1].browser_mode = "headless"
    /\ session.state = "CODEGEN"

(***************************************************************************)
(* The exit code of scrape                                                 *)
(***************************************************************************)
\* the run scrape started on the project it created has ended
ScrapeRunEnded == RunEnded /\ call.runs = 1 /\ call.start.state = "INIT"

\* C30 as stated: a run that ended in FAILED, whether run() raised or
\* returned, makes scrape exit with code 1, and the exit code is 0 only
\* for a run that ended in DONE.
C30_ExitCodeFollowsTerminalState ==
    ScrapeRunEnded =>
        /\ session.state = "FAILED" => exit_code(pc) = 1
        /\ exit_code(pc) = 0 => session.state = "DONE"

\* a handler chose FAILED and returned: run() returned normally, the Wide
\* Event says FAILED, and scrape exits with code 0
C30_Witness ==
    /\ ScrapeRunEnded
    /\ pc = "returned"
    /\ trans.by = "handler"
    /\ trans.to = "FAILED"
    /\ session.state = "FAILED"
    /\ disk.state = "FAILED"
    /\ wide_event # <<>>
    /\ wide_event[1].final_state = "FAILED"
    /\ exit_code(pc) = 0

(***************************************************************************)
(* The Generated Scraper Runtime                                           *)
(***************************************************************************)
\* no two records of the list have the same content string, hence none
\* the same content hash
NoSharedContent(records) ==
    \A i, j \in 1..Len(records) :
        content_str(records[i]) = content_str(records[j]) => i = j

\* C28: after every collect() call the results hold no two records with
\* the same content hash, over all the pages collected so far, and neither
\* does the dataset save() writes.
C28_NoTwoRecordsShareContentHash ==
    /\ NoSharedContent(scraper.results)
    /\ scraper.data # Absent => NoSharedContent(scraper.data[1])

\* the second page repeated a record of the first in another case: collect
\* removed it, and the dataset of two records was written
C28_Witness ==
    /\ scraper.pc = "done"
    /\ scraper.collected = 2
    /\ scraper.removed > 0
    /\ scraper.data = <<scraper.results>>
    /\ Len(scraper.results) = 2

\* the run has left its collection loop, by break or by an exception
LoopLeft == scraper.pc \in {"save", "done", "raised"}

\* the pages run() may collect under its pagination_config
PageLimit ==
    IF scraper.config.mode = "first_page" THEN 1
    ELSE scraper.config.max_pages

C29_PagesWithinConfig ==
    /\ scraper.collected <= PageLimit
    /\ scraper.pc \in {"save", "done"} => scraper.collected >= 1
    /\ scraper.advanced =>
           /\ scraper.config.mode = "all"
           /\ scraper.next_selector
           /\ scraper.button = "visible"
    /\ scraper.button \in ButtonStates \ {"visible"} =>
           /\ ~scraper.advanced
           /\ LoopLeft

\* C29: the collection loop of run() ends; mode "first_page" collects one
\* page, mode "all" at most max_pages pages, going on to the next page only
\* with a next-button selector configured and the button found visible and
\* clicked, and stopping at the first page where that fails.
C29_CollectionLoopTerminates ==
    /\ []C29_PagesWithinConfig
    /\ <>LoopLeft

\* mode "all" with max_pages 3: two pages were collected, the third page's
\* button was hidden, and the run saved what it had
C29_Witness ==
    /\ scraper.pc = "done"
    /\ scraper.config = [mode |-> "all", max_pages |-> 3]
    /\ scraper.collected = 2
    /\ scraper.page_count = <<2>>
    /\ scraper.button = "hidden"
    /\ ~scraper.advanced

(***************************************************************************)
(* The final run and the script tester                                     *)
(***************************************************************************)
\* the failures of an execution that another execution may not meet
TransientFailures ==
    {"Unexpected execution error", "Execution timed out (600s)."}

\* C31 as stated: the APPROVED handler moves to FAILED after a transient
\* failure of the final run only once the attempt budget of 2 is used up.
C31_FinalRunRetriedBeforeFailed ==
    (/\ trans.from = "APPROVED"
     /\ trans.by = "handler"
     /\ trans.to = "FAILED"
     /\ trans.cause \in TransientFailures) =>
        trans.attempts = final_run_attempts

\* the subprocess could not be started: run_test returned False, do_final
\* was called once, and the handler moved to FAILED
C31_Witness ==
    /\ trans.from = "APPROVED"
    /\ trans.by = "handler"
    /\ trans.to = "FAILED"
    /\ trans.cause = "Unexpected execution error"
    /\ trans.attempts = 1
    /\ session.state = "FAILED"
    /\ disk.state = "FAILED"

\* C32 as stated: run_test returns success only when the script exited with
\* code 0 and output/data.json is non-empty and was written by that very
\* execution.
C32_SuccessOnlyOnOwnOutput ==
    (tester.last # Absent /\ tester.last[1].success) =>
        /\ tester.last[1].how = "exit_0"
        /\ has_data(tester.output)
        /\ tester.output[1].by = tester.runs

\* the first execution left records in output/data.json; before the second
\* os.remove failed, the script exited with code 0 having written nothing,
\* and run_test returned success
C32_Witness ==
    /\ tester.runs = 2
    /\ tester.last # Absent
    /\ tester.last[1].success
    /\ tester.last[1].remove_failed
    /\ tester.last[1].how = "exit_0"
    /\ tester.output = <<[nonempty |-> TRUE, by |-> 1]>>

(***************************************************************************)
(* Browser sessions                                                        *)
(***************************************************************************)
\* C33 as stated: at most one browser of the engine is open at any time,
\* and none is open once a handler's coroutine has returned or raised,
\* whatever failed and on whichever attempt.
C33_BrowsersClosedByHandlers ==
    /\ open_browsers(browser) <= 1
    /\ browser.pc \in {"between", "returned", "raised"} =>
           open_browsers(browser) = 0

\* do_recon: on the first attempt new_context raised inside start(), before
\* the try; the launched browser was never closed, and the second attempt
\* has launched another
C33_Witness ==
    /\ browser.handler = "do_recon"
    /\ browser.attempt = 2
    /\ browser.pc = "try"
    /\ browser.abandoned = 1
    /\ open_browsers(browser) = 2

(***************************************************************************)
(* interaction.json                                                        *)
(***************************************************************************)
\* C34 as stated: when INTERACTIVE_SOLVE records its result in
\* interaction.json, the access_mode and steps written at INIT are still
\* there, beside captcha_solved_manually and final_url.
C34_SolveKeepsInteractionFields ==
    (/\ trans.from = "INTERACTIVE_SOLVE"
     /\ "interaction" \in trans.wrote
     /\ call.start.state = "INIT"
     /\ ~opts.ci_mode) =>
        /\ {"access_mode", "steps", "captcha_solved_manually", "final_url"}
               \subseteq files.interaction[1].keys
        /\ files.interaction[1].access_mode \in {"automatic", "guided"}

\* a run that wrote interaction.json at INIT and then solved a captcha:
\* the file holds captcha_solved_manually and final_url only
C34_Witness ==
    /\ trans.from = "INTERACTIVE_SOLVE"
    /\ trans.to = "LLM_ANALYSIS"
    /\ "interaction" \in trans.wrote
    /\ call.start.state = "INIT"
    /\ ~opts.ci_mode
    /\ files.interaction = <<solved_interaction>>

(***************************************************************************)
(* The LLM client                                                          *)
(***************************************************************************)
\* the provider request after which the call made another
Followed(r, i) == i < Len(r)

\* C35: a call makes at most two provider requests; a request is followed
\* by another only when it was made by a JSON-mode call and was answered
\* with an error other than an authentication error, and the one that
\* follows is made in plain-text mode; a JSON-mode call whose first request
\* is rejected makes exactly one more; the call ends with what its last
\* request was answered with, returned or raised.
C35_JsonModeRetriedOnceInPlainText ==
    LET r == client.requests
    IN /\ Len(r) <= 2
       /\ \A i \in 1..Len(r) :
              Followed(r, i) =>
                  /\ r[i].json_mode
                  /\ r[i].answer.kind = "error"
                  /\ r[i].answer.error.type # "AuthenticationError"
                  /\ ~r[i + 1].json_mode
                  /\ ~r[i + 1].response_format
       /\ (client.pc = "done" /\ r # <<>>) =>
              LET last == r[Len(r)].answer
              IN /\ last.kind = "error" =>
                        client.result = CallRaised(last.error)
                 /\ last.kind = "reply" =>
                        /\ client.result[1].how = "returned"
                        /\ last.content # <<>> =>
                               client.result[1].content = last.content
       /\ (/\ client.pc = "done" /\ r # <<>> /\ r[1].json_mode
           /\ r[1].answer.kind = "error"
           /\ r[1].answer.error.type = "BadRequestError"
           /\ "response_format" \in r[1].answer.error.msg) => Len(r) = 2

\* a JSON-mode call was rejected, re-called in plain text, and that call
\* failed in turn: its error is what the call raised
C35_Witness ==
    /\ client.pc = "done"
    /\ client.json_mode
    /\ Len(client.requests) = 2
    /\ client.requests[1].response_format
    /\ client.requests[2].answer.kind = "error"
    /\ client.requests[2].answer.error.type = "BadRequestError"
    /\ client.result = CallRaised(client.requests[2].answer.error)

\* the tokens of a text without the white space
Compact(t) == SelectSeq(t, LAMBDA token : token \notin Whitespace)

TheObject(p) == [type |-> "dict", repr |-> Compact(p.object)]

C37_FixesAppliedOnEveryPath ==
    agent.written # Absent =>
        agent.written[1] = fix_hallucinations(agent.extracted)

\* code from a python fence was written with its import of the package
\* async_playwright as the model wrote it
C37_Witness ==
    /\ agent.written # Absent
    /\ agent.path = "fence"
    /\ SubSeq(agent.written[1], 1, 2) = <<"import", "async_playwright">>
    /\ agent.written[1] = agent.extracted
    /\ agent.written[1] # fix_hallucinations(agent.extracted)

(***************************************************************************)
(* REPAIR after flagged columns                                            *)
(***************************************************************************)
\* the Repair Loop of a REPAIR entered on flagged columns has returned and
\* the handler is about to choose the next state
FlaggedLoopReturned ==
    /\ pc = "loop"
    /\ session.state = "REPAIR"
    /\ loop.pc = "done"
    /\ loop.flagged

\* C38: when REPAIR was entered because the operator flagged columns after
\* a passing test, the Repair agent has been invoked, with the flagged
\* columns as its hints, by the time the handler chooses the next state.
C38_FlaggedColumnsReachRepairAgent ==
    FlaggedLoopReturned =>
        /\ loop.hints # Absent
        /\ \E i \in 1..Len(loop.log) : loop.log[i] \in {"repair",
                                                        "repair_raised"}

\* the loop's first test passed again and the loop returned at once: the
\* Repair agent was never invoked
C38_Witness ==
    /\ FlaggedLoopReturned
    /\ loop.hints # Absent
    /\ loop.log = <<"test_ok">>
    /\ loop.result

(***************************************************************************)
(* The pagination choice limit_5                                           *)
(***************************************************************************)
\* C39: a scraper constructed with the pagination_config written for the
\* choice limit_5 never collects more than 5 pages, and with a next-button
\* selector configured it leaves a page whose next button is visible only
\* for the next page, until 5 pages are collected.
C39_LimitFiveVisitsUpToFivePages ==
    scraper.config = pagination_config("limit_5") =>
        /\ scraper.collected <= 5
        /\ (/\ scraper.pc = "save"
            /\ scraper.next_selector
            /\ scraper.shown = "visible") => scraper.collected = 5

\* the run saved the one page it collected although the page showed a
\* visible next button
C39_Witness ==
    /\ scraper.config = pagination_config("limit_5")
    /\ scraper.pc = "done"
    /\ scraper.data # Absent
    /\ scraper.next_selector
    /\ scraper.shown = "visible"
    /\ scraper.collected = 1
    /\ ~scraper.advanced

(***************************************************************************)
(* The Wide Event's success                                                *)
(***************************************************************************)
\* a run that began before DONE has ended with a Wide Event that says
\* success
SuccessReported ==
    /\ RunEnded
    /\ wide_event # <<>>
    /\ wide_event[1].success
    /\ call.start.state # "DONE"

\* C40: a run that did not begin in DONE writes a Wide Event with success =
\* true only when its last handler was APPROVED's, whose final run
\* succeeded and moved the project to DONE.
C40_SuccessOnlyAfterFinalRun ==
    SuccessReported => (trans.from = "APPROVED" /\ trans.to = "DONE")

\* the operator aborted at the data review of TEST: the run ended in DONE
\* and its Wide Event says success, with no final run
C40_Witness ==
    /\ SuccessReported
    /\ call.start.state = "TEST"
    /\ trans.from = "TEST"
    /\ trans.to = "DONE"
    /\ trans.action = "abort"
    /\ wide_event[1].final_state = "DONE"

====
